---- MODULE Spec2Model ----
(***************************************************************************)
(* Model of settings/config_serializer.py: the (de)serializer between the  *)
(* STDM in-memory configuration (profiles, entities, value lists, columns, *)
(* relations) and its DOM document.                                        *)
(*                                                                         *)
(* Names (tags, attribute names, short names) are TLA+ strings.  A text    *)
(* the code parses (a boolean, a bound, a version number) is a sequence of *)
(* one-character strings, so that the parsers below work on characters as  *)
(* the Python ones do.                                                     *)
(***************************************************************************)
EXTENDS Integers, Sequences, FiniteSets, TLC

VARIABLES
    config,                     \* StdmConfiguration.instance(): [profiles]
    document,                   \* the QDomDocument passed to read_xml
    doc_element,                \* read_xml: the element whose items are loaded
    pc,                         \* position of the running read_xml
    outcome,                    \* how the last read_xml ended
    i,                          \* _load_config_items: index of the profile element
    profile,                    \* ProfileSerializer.read_xml: profile being built
    association_elements,       \* ProfileSerializer.read_xml: association index
    entity_relation_elements,   \* ProfileSerializer.read_xml: relation index
    deferred_elements,          \* ProfileSerializer.read_xml: queued elements
    j,                          \* ProfileSerializer.read_xml: index in the running pass
    loads,                      \* number of read_xml calls started
    path,                       \* ConfigurationFileSerializer.path
    files,                      \* the file system: path -> file
    handle,                     \* the QFile of the running or last save / load
    op,                         \* the operation that runs or ran last
    updates                     \* calls of self.update by the running or last read_xml

vars == <<config, document, doc_element, pc, outcome, i, profile, association_elements,
          entity_relation_elements, deferred_elements, j, loads, path, files, handle, op,
          updates>>

(***************************************************************************)
(* Bounds of the model.                                                    *)
(***************************************************************************)
MaxLoads == 2
MaxProfiles == 2
MaxChildren == 3
MaxColumns == 2
MaxValueLists == 2
MaxCodeValues == 2

(***************************************************************************)
(* QDom: an element is a tag, its attributes (a function from attribute    *)
(* names) and its child elements in document order.                        *)
(***************************************************************************)
NoAttrs == [k \in {} |-> ""]

Element(tag, attrs, children) ==
    [tag |-> tag, attrs |-> attrs, children |-> children]

NullElement == Element("#null", NoAttrs, <<>>)

isNull(el) == el.tag = "#null"

hasAttribute(el, a) == a \in DOMAIN el.attrs

attribute(el, a, default) == IF hasAttribute(el, a) THEN el.attrs[a] ELSE default

childNodes(el) == el.children

firstChildElement(el, tag) ==
    LET hits == SelectSeq(el.children, LAMBDA c : c.tag = tag)
    IN  IF hits = <<>> THEN NullElement ELSE hits[1]

RECURSIVE Descendants(_, _)
Descendants(children, k) ==
    IF k > Len(children) THEN <<>>
    ELSE <<children[k]>> \o Descendants(children[k].children, 1)
                         \o Descendants(children, k + 1)

elementsByTagName(el, tag) ==
    SelectSeq(Descendants(el.children, 1), LAMBDA c : c.tag = tag)

\* A QDomDocument is its document element (NullElement for an empty document).
documentElement(doc) == doc.root

NullDocument == [root |-> NullElement]

(***************************************************************************)
(* Python dictionaries (dict / OrderedDict / **kwargs) as functions.       *)
(***************************************************************************)
EmptyDict == [k \in {} |-> ""]

DictSet(d, k, v) == [n \in DOMAIN d \cup {k} |-> IF n = k THEN v ELSE d[n]]

(***************************************************************************)
(* Text parsing: unicode.upper, int(), float().                            *)
(***************************************************************************)
DigitChars == <<"0", "1", "2", "3", "4", "5", "6", "7", "8", "9">>

IsDigit(c) == \E k \in 1..Len(DigitChars) : DigitChars[k] = c

DigitVal(c) == (CHOOSE k \in 1..Len(DigitChars) : DigitChars[k] = c) - 1

\* the letters of Latin-1 and their capitals (texts are over Latin-1).  The
\* capitals of y-diaeresis and of the micro sign lie beyond Latin-1: such a
\* character is written by its code point, as "U+0178"
LowerChars ==
    <<"a", "b", "c", "d", "e", "f", "g", "h", "i", "j", "k", "l", "m",
      "n", "o", "p", "q", "r", "s", "t", "u", "v", "w", "x", "y", "z",
      "à", "á", "â", "ã", "ä", "å", "æ", "ç", "è", "é", "ê", "ë", "ì",
      "í", "î", "ï", "ð", "ñ", "ò", "ó", "ô", "õ", "ö", "ø", "ù", "ú",
      "û", "ü", "ý", "þ", "ÿ", "µ">>
UpperChars ==
    <<"A", "B", "C", "D", "E", "F", "G", "H", "I", "J", "K", "L", "M",
      "N", "O", "P", "Q", "R", "S", "T", "U", "V", "W", "X", "Y", "Z",
      "À", "Á", "Â", "Ã", "Ä", "Å", "Æ", "Ç", "È", "É", "Ê", "Ë", "Ì",
      "Í", "Î", "Ï", "Ð", "Ñ", "Ò", "Ó", "Ô", "Õ", "Ö", "Ø", "Ù", "Ú",
      "Û", "Ü", "Ý", "Þ", "U+0178", "U+039C">>

\* unicode.upper() of one character
UpperChar(c) ==
    IF \E k \in 1..Len(LowerChars) : LowerChars[k] = c
    THEN UpperChars[CHOOSE k \in 1..Len(LowerChars) : LowerChars[k] = c]
    ELSE c

upper(s) == [k \in 1..Len(s) |-> UpperChar(s[k])]

\* the characters int() and float() skip around a number, the spaces of
\* unicode within Latin-1: tab, line feed, vertical tab, form feed, carriage
\* return, the four separators U+001C..U+001F, space, next line (U+0085)
\* and the no-break space
Whitespace ==
    {"\t", "\n", "", "\f", "\r", "", "", "", "", " ", "", " "}

\* s without the characters of C it begins with
LStripOf(s, C) ==
    IF \A k \in 1..Len(s) : s[k] \in C THEN <<>>
    ELSE SubSeq(s, CHOOSE k \in 1..Len(s) :
                       s[k] \notin C /\ \A m \in 1..(k - 1) : s[m] \in C,
                Len(s))

\* s without the characters of C it ends with
RStripOf(s, C) ==
    IF \A k \in 1..Len(s) : s[k] \in C THEN <<>>
    ELSE SubSeq(s, 1, CHOOSE k \in 1..Len(s) :
                          s[k] \notin C /\ \A m \in (k + 1)..Len(s) : s[m] \in C)

LStrip(s) == LStripOf(s, Whitespace)

RStrip(s) == RStripOf(s, Whitespace)

strip(s) == RStrip(LStrip(s))

IsSigned(s) == s # <<>> /\ Head(s) \in {"+", "-"}

Unsigned(s) == IF IsSigned(s) THEN Tail(s) ELSE s

IsNegative(s) == IsSigned(s) /\ Head(s) = "-"

AllDigits(s) == s # <<>> /\ \A k \in 1..Len(s) : IsDigit(s[k])

RECURSIVE DigitsValue(_)
DigitsValue(s) ==
    IF s = <<>> THEN 0
    ELSE 10 * DigitsValue(SubSeq(s, 1, Len(s) - 1)) + DigitVal(s[Len(s)])

Signed(s, n) == IF IsNegative(s) THEN 0 - n ELSE n

IntOfStripped(t, u) ==
    IF AllDigits(u) THEN [ok |-> TRUE, value |-> Signed(t, DigitsValue(u))]
    ELSE [ok |-> FALSE]

\* Python 2 skips whitespace between the sign and the digits as well
IntOf(t) == IntOfStripped(t, LStrip(Unsigned(t)))

\* int(text): [ok |-> FALSE] stands for ValueError.
int(text) == IntOf(strip(text))

(***************************************************************************)
(* Floats.  A float is a double; it is held as the shortest decimal that   *)
(* reads back as that double (its repr): 0.d1 d2 ... dn * 10^exp with its  *)
(* sign, the digits without leading or trailing zeros, zero without digit. *)
(***************************************************************************)
Finite(neg, digits, exp) ==
    [kind |-> "finite", neg |-> neg, digits |-> digits,
     exp |-> IF digits = <<>> THEN 0 ELSE exp]

Infinite(neg) == [kind |-> "inf", neg |-> neg, digits |-> <<>>, exp |-> 0]

NaN == [kind |-> "nan", neg |-> FALSE, digits |-> <<>>, exp |-> 0]

LStripZeros(d) == LStripOf(d, {"0"})

RStripZeros(d) == RStripOf(d, {"0"})

\* the digits d plus one in their last place (all nines give all zeros)
RECURSIVE Succ(_)
Succ(d) ==
    IF d = <<>> THEN <<>>
    ELSE IF d[Len(d)] = "9" THEN Append(Succ(SubSeq(d, 1, Len(d) - 1)), "0")
    ELSE Append(SubSeq(d, 1, Len(d) - 1), DigitChars[DigitVal(d[Len(d)]) + 2])

\* round half to even: d has more than k digits and no trailing zero
RoundsUp(d, k) ==
    \/ DigitVal(d[k + 1]) > 5
    \/ DigitVal(d[k + 1]) = 5 /\ (Len(d) > k + 1 \/ DigitVal(d[k]) % 2 = 1)

\* 0.d * 10^exp rounded to k significant digits
Rounded(neg, d, exp, k) ==
    IF Len(d) <= k THEN Finite(neg, d, exp)
    ELSE IF ~RoundsUp(d, k) THEN Finite(neg, RStripZeros(SubSeq(d, 1, k)), exp)
    ELSE IF \A m \in 1..k : d[m] = "9" THEN Finite(neg, <<"1">>, exp + 1)
    ELSE Finite(neg, RStripZeros(Succ(SubSeq(d, 1, k))), exp)

(***************************************************************************)
(* Naturals of any size, for the exact value of a decimal and of a double: *)
(* the limbs of base 10000, the least significant first, without a zero    *)
(* limb at the end; <<>> is zero.  The operators halve their work rather   *)
(* than walk it, so that none nests deeper than a few dozen levels.        *)
(***************************************************************************)
RECURSIVE Trim(_)
Trim(a) == IF a # <<>> /\ a[Len(a)] = 0 THEN Trim(SubSeq(a, 1, Len(a) - 1)) ELSE a

\* the natural of the digits d
Limbs(d) ==
    Trim([k \in 1..((Len(d) + 3) \div 4) |->
              DigitsValue(SubSeq(d, IF Len(d) - 4 * k + 1 < 1 THEN 1
                                    ELSE Len(d) - 4 * k + 1,
                                 Len(d) - 4 * (k - 1)))])

FourDigits(n) ==
    <<DigitChars[(n \div 1000) + 1], DigitChars[((n \div 100) % 10) + 1],
      DigitChars[((n \div 10) % 10) + 1], DigitChars[(n % 10) + 1]>>

\* the digits of the natural a
DigitsOfLimbs(a) ==
    LStripZeros([k \in 1..(4 * Len(a)) |->
                     FourDigits(a[Len(a) - ((k - 1) \div 4)])[((k - 1) % 4) + 1]])

\* the number of digits of a
Digits10(a) ==
    IF a = <<>> THEN 0
    ELSE 4 * (Len(a) - 1) + (IF a[Len(a)] >= 1000 THEN 4 ELSE IF a[Len(a)] >= 100 THEN 3
                             ELSE IF a[Len(a)] >= 10 THEN 2 ELSE 1)

RECURSIVE SmallPow(_, _)
SmallPow(b, n) == IF n = 0 THEN 1 ELSE b * SmallPow(b, n - 1)

CarryLimbs(c) ==
    IF c = 0 THEN <<>> ELSE IF c < 10000 THEN <<c>> ELSE <<c % 10000, c \div 10000>>

TimesJoin(x, y) == [limbs |-> x.limbs \o y.limbs, carry |-> y.carry]

\* the limbs lo..hi of a times k plus the carry c: the limbs and the carry.
\* The lower half x is worked out before the upper half takes its carry.
RECURSIVE TimesOf(_, _, _, _, _)
TimesNext(x, a, mid, hi, k) ==
    IF x.carry >= 0 THEN TimesJoin(x, TimesOf(a, mid + 1, hi, k, x.carry)) ELSE x

TimesOf(a, lo, hi, k, c) ==
    IF lo = hi
    THEN [limbs |-> <<((a[lo] * k) + c) % 10000>>, carry |-> ((a[lo] * k) + c) \div 10000]
    ELSE TimesNext(TimesOf(a, lo, (lo + hi) \div 2, k, c), a, (lo + hi) \div 2, hi, k)

TimesCarry(x) == x.limbs \o CarryLimbs(x.carry)

\* a * k + c for k and c that fit a limb product
Times(a, k, c) ==
    IF a = <<>> THEN CarryLimbs(c) ELSE TimesCarry(TimesOf(a, 1, Len(a), k, c))

\* a * k^n
RECURSIVE TimesChunks(_, _, _)
TimesChunks(a, k, n) ==
    IF n = 0 \/ a = <<>> THEN a
    ELSE IF n = 1 THEN Times(a, k, 0)
    ELSE TimesChunks(TimesChunks(a, k, n \div 2), k, n - (n \div 2))

TimesPow2(a, n) == Times(TimesChunks(a, 65536, n \div 16), SmallPow(2, n % 16), 0)

TimesPow5(a, n) == Times(TimesChunks(a, 78125, n \div 7), SmallPow(5, n % 7), 0)

TimesPow10(a, n) ==
    IF a = <<>> THEN a ELSE Times([k \in 1..(n \div 4) |-> 0] \o a, SmallPow(10, n % 4), 0)

OverJoin(x, y) == [q |-> x.q \o y.q, r |-> x.r]

\* the limbs lo..hi of a over k, r the remainder of the limbs above them:
\* the quotient (not trimmed) and the remainder.  The upper half y is worked
\* out before the lower half takes its remainder.
RECURSIVE OverOf(_, _, _, _, _)
OverNext(y, a, lo, mid, k) ==
    IF y.r >= 0 THEN OverJoin(OverOf(a, lo, mid, k, y.r), y) ELSE y

OverOf(a, lo, hi, k, r) ==
    IF lo = hi
    THEN [q |-> <<((r * 10000) + a[lo]) \div k>>, r |-> ((r * 10000) + a[lo]) % k]
    ELSE OverNext(OverOf(a, ((lo + hi) \div 2) + 1, hi, k, r), a, lo, (lo + hi) \div 2, k)

Over(a, k) == IF a = <<>> THEN [q |-> <<>>, r |-> 0] ELSE OverOf(a, 1, Len(a), k, 0)

\* a natural with what was cut off it: sticky tells whether that was anything
Cut(d, sticky) == [q |-> Trim(d.q), sticky |-> sticky \/ d.r # 0]

CutOver(x, k) == Cut(Over(x.q, k), x.sticky)

\* x.q div k^n
RECURSIVE OverChunks(_, _, _)
OverChunks(x, k, n) ==
    IF n = 0 \/ x.q = <<>> THEN x
    ELSE IF n = 1 THEN CutOver(x, k)
    ELSE OverChunks(OverChunks(x, k, n \div 2), k, n - (n \div 2))

OverPow2(x, n) == CutOver(OverChunks(x, 65536, n \div 16), SmallPow(2, n % 16))

OverPow10(x, n) ==
    IF n \div 4 >= Len(x.q) THEN [q |-> <<>>, sticky |-> x.sticky \/ x.q # <<>>]
    ELSE CutOver([q |-> SubSeq(x.q, (n \div 4) + 1, Len(x.q)),
                  sticky |-> x.sticky \/ \E k \in 1..(n \div 4) : x.q[k] # 0],
                 SmallPow(10, n % 4))

\* a < b
Less(a, b) ==
    IF Len(a) # Len(b) THEN Len(a) < Len(b)
    ELSE \E k \in 1..Len(a) : a[k] < b[k] /\ \A m \in (k + 1)..Len(a) : a[m] = b[m]

Odd(a) == a # <<>> /\ a[1] % 2 = 1

\* the powers of two up to 2^80
TwoTo == [b \in 0..80 |-> TimesPow2(<<1>>, b)]

\* the number of bits of a, a below 2^80
Bits(a) == CHOOSE b \in 0..80 : Less(a, TwoTo[b]) /\ (b = 0 \/ ~Less(a, TwoTo[b - 1]))

(***************************************************************************)
(* The double nearest to a decimal, as the C library's strtod gives it:    *)
(* m * 2^e with m below 2^53, rounded half to even; from 2^1024 on it is   *)
(* inf, and below 2^-1074 the significand loses its bits down to zero.     *)
(***************************************************************************)
DoubleZero(neg) == [kind |-> "zero", neg |-> neg, m |-> <<>>, e |-> 0]

DoubleInf(neg) == [kind |-> "inf", neg |-> neg, m |-> <<>>, e |-> 0]

\* m * 2^e with m of 53 bits, or of fewer with the least exponent; a
\* rounding that carried to 2^53 takes the next exponent
Normal(neg, m, e) ==
    IF m = <<>> THEN DoubleZero(neg)
    ELSE IF (IF m = TwoTo[53] THEN e + 1 ELSE e) > 971 THEN DoubleInf(neg)
    ELSE [kind |-> "finite", neg |-> neg,
          m |-> IF m = TwoTo[53] THEN TwoTo[52] ELSE m,
          e |-> IF m = TwoTo[53] THEN e + 1 ELSE e]

\* the last bit d.r and what was cut off round half to even
RoundHalfEven(d, sticky) ==
    IF d.r = 1 /\ (sticky \/ Odd(Trim(d.q))) THEN Times(Trim(d.q), 1, 1) ELSE Trim(d.q)

RoundedHalf(x) == RoundHalfEven(Over(x.q, 2), x.sticky)

\* (x.q + fraction) * 2^e brought to 53 bits by t more halvings (t < 1:
\* x.q has fewer bits and nothing was cut off)
NearestBy(neg, x, e, t) ==
    IF t < 1 THEN Normal(neg, TimesPow2(x.q, 0 - t), e + t)
    ELSE Normal(neg, RoundedHalf(OverPow2(x, t - 1)), e + t)

\* the exponent of a double is -1074 at least
NearestOf(neg, x, e) ==
    NearestBy(neg, x, e,
              IF Bits(x.q) - 53 < 0 - 1074 - e THEN 0 - 1074 - e ELSE Bits(x.q) - 53)

\* log2(10) lies between 3.321 and 3.322: a natural of n digits has more
\* than 3.321 * (n - 1) bits
SpareBits(a) ==
    IF (((Digits10(a) - 1) * 3321) \div 1000) - 60 < 0 THEN 0
    ELSE (((Digits10(a) - 1) * 3321) \div 1000) - 60

\* (x.q + fraction) * 2^e, first cut to some 64 bits
NearestCut(neg, x, e) == NearestOf(neg, OverPow2(x, SpareBits(x.q)), e + SpareBits(x.q))

\* the doublings that bring a / 10^n to 2^53 at least, 1075 at most:
\* 2^53 * 10^n has 16 + n digits
Doublings(a, n) ==
    IF 17 + n - Digits10(a) <= 0 THEN 0
    ELSE IF (((17 + n - Digits10(a)) * 3322) \div 1000) + 1 > 1075 THEN 1075
    ELSE (((17 + n - Digits10(a)) * 3322) \div 1000) + 1

\* the double nearest to a * 10^q, a not zero
NearestDouble(neg, a, q) ==
    IF q >= 0 THEN NearestCut(neg, [q |-> TimesPow10(a, q), sticky |-> FALSE], 0)
    ELSE NearestCut(neg, OverPow10([q |-> TimesPow2(a, Doublings(a, 0 - q)),
                                    sticky |-> FALSE], 0 - q),
                    0 - Doublings(a, 0 - q))

\* the double nearest to 0.d * 10^exp
ToDouble(neg, d, exp) == NearestDouble(neg, Limbs(d), exp - Len(d))

\* the digits dg before the decimal point moved by e places
ExactOf(dg, e) == [digits |-> RStripZeros(dg), exp |-> Len(dg) + e]

\* the exact decimal value of the finite double x
Exact(x) ==
    IF x.e >= 0 THEN ExactOf(DigitsOfLimbs(TimesPow2(x.m, x.e)), 0)
    ELSE ExactOf(DigitsOfLimbs(TimesPow5(x.m, 0 - x.e)), x.e)

DoubleOf(v) == ToDouble(v.neg, v.digits, v.exp)

\* the shortest decimal that reads back as x, of k digits at least
RECURSIVE ShortestFrom(_, _, _)
ShortestFrom(x, v, k) ==
    IF k >= 17 \/ Len(v.digits) <= k THEN Rounded(x.neg, v.digits, v.exp, 17)
    ELSE IF DoubleOf(Rounded(x.neg, v.digits, v.exp, k)) = x
    THEN Rounded(x.neg, v.digits, v.exp, k)
    ELSE ShortestFrom(x, v, k + 1)

\* repr: 15 digits tell apart the doubles of the normal range only
Shortest(x) ==
    IF x.kind = "zero" THEN Finite(x.neg, <<>>, 0)
    ELSE IF x.kind = "inf" THEN Infinite(x.neg)
    ELSE ShortestFrom(x, Exact(x), IF Less(x.m, TwoTo[52]) THEN 1 ELSE 15)

\* the float of 0.d * 10^exp: a decimal of at most 15 digits within the
\* normal range is the repr of its double; 1e310 is beyond the largest
\* double and 1e-330 below half the least
FloatOfDecimal(neg, d, exp) ==
    IF d = <<>> THEN Finite(neg, <<>>, 0)
    ELSE IF Len(d) <= 15 /\ exp >= 0 - 306 /\ exp <= 308 THEN Finite(neg, d, exp)
    ELSE IF exp > 310 THEN Infinite(neg)
    ELSE IF exp < 0 - 330 THEN Finite(neg, <<>>, 0)
    ELSE Shortest(ToDouble(neg, d, exp))

\* the digits d with the decimal point after the first `point` of them,
\* times 10^x
FloatOfDigits(neg, d, point, x) ==
    FloatOfDecimal(neg, RStripZeros(LStripZeros(d)),
                   point - (Len(d) - Len(LStripZeros(d))) + x)

FirstOf(s, C) ==
    IF \E k \in 1..Len(s) : s[k] \in C
    THEN CHOOSE k \in 1..Len(s) : s[k] \in C /\ \A m \in 1..(k - 1) : s[m] \notin C
    ELSE 0

DotAt(s) == FirstOf(s, {"."})

\* the exponent after e or E: a sign and digits; an exponent of more than
\* four digits is beyond the range of a double whatever the mantissa
ExponentOf(xs) ==
    IF ~AllDigits(Unsigned(xs)) THEN [ok |-> FALSE]
    ELSE [ok |-> TRUE,
          value |-> Signed(xs, IF Len(LStripZeros(Unsigned(xs))) > 4 THEN 9999
                               ELSE DigitsValue(Unsigned(xs)))]

FloatOfParts(t, ip, fp, x) ==
    IF AllDigits(ip \o fp) /\ x.ok
    THEN [ok |-> TRUE, value |-> FloatOfDigits(IsNegative(t), ip \o fp, Len(ip), x.value)]
    ELSE [ok |-> FALSE]

\* the mantissa m and its exponent
FloatOfMantissa(t, m, d, x) ==
    IF d = 0 THEN FloatOfParts(t, m, <<>>, x)
    ELSE FloatOfParts(t, SubSeq(m, 1, d - 1), SubSeq(m, d + 1, Len(m)), x)

FloatOfUnsigned(t, u, e) ==
    IF e = 0 THEN FloatOfMantissa(t, u, DotAt(u), [ok |-> TRUE, value |-> 0])
    ELSE FloatOfMantissa(t, SubSeq(u, 1, e - 1), DotAt(SubSeq(u, 1, e - 1)),
                         ExponentOf(SubSeq(u, e + 1, Len(u))))

\* inf, infinity and nan in any case, else a decimal number
FloatOfStripped(t, u) ==
    IF upper(u) \in {<<"I", "N", "F">>, <<"I", "N", "F", "I", "N", "I", "T", "Y">>}
    THEN [ok |-> TRUE, value |-> Infinite(IsNegative(t))]
    ELSE IF upper(u) = <<"N", "A", "N">> THEN [ok |-> TRUE, value |-> NaN]
    ELSE FloatOfUnsigned(t, u, FirstOf(u, {"e", "E"}))

FloatOf(t) == FloatOfStripped(t, Unsigned(t))

\* float(text): [ok |-> FALSE] stands for ValueError.
float(text) == FloatOf(strip(text))

\* c < d for the digits of two floats of the same exponent
DigitsLess(c, d) ==
    \E k \in 1..Len(d) :
        /\ \A m \in 1..(k - 1) : m <= Len(c) /\ c[m] = d[m]
        /\ k > Len(c) \/ DigitVal(c[k]) < DigitVal(d[k])

\* |a| < |b| for finite floats
MagnitudeLess(a, b) ==
    IF b.digits = <<>> THEN FALSE
    ELSE IF a.digits = <<>> THEN TRUE
    ELSE IF a.exp # b.exp THEN a.exp < b.exp
    ELSE DigitsLess(a.digits, b.digits)

FiniteLess(a, b) ==
    IF a.neg /\ ~b.neg THEN a.digits # <<>> \/ b.digits # <<>>
    ELSE IF ~a.neg /\ b.neg THEN FALSE
    ELSE IF a.neg THEN MagnitudeLess(b, a)
    ELSE MagnitudeLess(a, b)

\* a < b of two floats: nan is less than nothing and nothing is less than nan
FloatLess(a, b) ==
    IF a.kind = "nan" \/ b.kind = "nan" THEN FALSE
    ELSE IF a.kind = "inf" THEN a.neg /\ ~(b.kind = "inf" /\ b.neg)
    ELSE IF b.kind = "inf" THEN ~b.neg
    ELSE FiniteLess(a, b)

(***************************************************************************)
(* str() of a unicode text.  Python 2 encodes the text with the ascii      *)
(* codec: a character beyond ASCII raises UnicodeEncodeError.              *)
(***************************************************************************)
\* the characters of Latin-1 beyond ASCII: U+0080..U+00FF
BeyondAsciiChars ==
    {"", "", "", "", "", "", "", "", "", "", "", "", "", "", "", "",
     "", "", "", "", "", "", "", "", "", "", "", "", "", "", "", "",
     " ", "¡", "¢", "£", "¤", "¥", "¦", "§", "¨", "©", "ª", "«", "¬", "­", "®", "¯",
     "°", "±", "²", "³", "´", "µ", "¶", "·", "¸", "¹", "º", "»", "¼", "½", "¾", "¿",
     "À", "Á", "Â", "Ã", "Ä", "Å", "Æ", "Ç", "È", "É", "Ê", "Ë", "Ì", "Í", "Î", "Ï",
     "Ð", "Ñ", "Ò", "Ó", "Ô", "Õ", "Ö", "×", "Ø", "Ù", "Ú", "Û", "Ü", "Ý", "Þ", "ß",
     "à", "á", "â", "ã", "ä", "å", "æ", "ç", "è", "é", "ê", "ë", "ì", "í", "î", "ï",
     "ð", "ñ", "ò", "ó", "ô", "õ", "ö", "÷", "ø", "ù", "ú", "û", "ü", "ý", "þ", "ÿ"}

\* every character below U+0080 encodes
IsAscii(text) ==
    \A k \in 1..Len(text) : SubSeq(text, k, k) \notin BeyondAsciiChars

\* str(text): [ok |-> FALSE] stands for UnicodeEncodeError.
str(text) == IF IsAscii(text) THEN [ok |-> TRUE, value |-> text] ELSE [ok |-> FALSE]

\* a conversion that accepts the whole word only
_str_to_bool_word(bool_str) == upper(bool_str) = <<"T", "R", "U", "E">>

_str_to_bool(bool_str) ==
    LET s == IF Len(bool_str) > 1 THEN <<bool_str[1]>> ELSE bool_str
    IN  upper(s) = <<"T">>

(***************************************************************************)
(* The objects of stdm.data.configuration the serializer builds.  Their    *)
(* classes are not part of this file; they are modelled from the data      *)
(* model of the specification: a profile maps short names to entity-like   *)
(* objects (last write wins), an entity maps column names to columns, a    *)
(* value list owns (code, value) pairs, each once, and an entity relation  *)
(* is                                                                      *)
(* valid when its parent and child short names resolve to entities that    *)
(* are in the profile when the relation is constructed.                    *)
(***************************************************************************)
Profile(name) ==
    [name |-> name, entities |-> <<>>, relations |-> <<>>, social_tenure |-> EmptyDict]

NoProfile == [name |-> "", entities |-> <<>>, relations |-> <<>>, social_tenure |-> EmptyDict]

ShortNames(prof) == {prof.entities[k].short_name : k \in 1..Len(prof.entities)}

entity(prof, short_name) ==
    prof.entities[CHOOSE k \in 1..Len(prof.entities) :
                      prof.entities[k].short_name = short_name]

add_entity(prof, ent) ==
    IF ent.short_name \in ShortNames(prof)
    THEN [prof EXCEPT !.entities =
              [k \in 1..Len(prof.entities) |->
                  IF prof.entities[k].short_name = ent.short_name
                  THEN ent ELSE prof.entities[k]]]
    ELSE [prof EXCEPT !.entities = Append(prof.entities, ent)]

set_social_tenure_attr(prof, attr, short_name) ==
    [prof EXCEPT !.social_tenure = DictSet(prof.social_tenure, attr, short_name)]

Entity(short_name, optional_args) ==
    [TYPE_INFO |-> "ENTITY", short_name |-> short_name,
     optional_args |-> optional_args, props |-> EmptyDict, columns |-> <<>>]

ValueList(short_name) ==
    [TYPE_INFO |-> "VALUE_LIST", short_name |-> short_name, values |-> <<>>]

\* the pairs are kept in the order they were added in
add_value(value_list, value, code) ==
    IF \E k \in 1..Len(value_list.values) :
           value_list.values[k] = [code |-> code, value |-> value]
    THEN value_list
    ELSE [value_list EXCEPT !.values = Append(@, [code |-> code, value |-> value])]

EntityRelation(prof, args) ==
    [parent |-> args.parent, child |-> args.child,
     parent_column |-> args.parent_column, child_column |-> args.child_column,
     parent_resolved |-> args.parent \in ShortNames(prof),
     child_resolved |-> args.child \in ShortNames(prof)]

valid(er) == er.parent_resolved /\ er.child_resolved

\* BaseColumn.column_type: the column classes, by type tag (None: no class)
ColumnTypes ==
    {"TEXT", "VARCHAR", "BIGINT", "DOUBLE", "SERIAL", "DATE", "DATETIME", "YES_NO",
     "GEOMETRY", "FOREIGN_KEY", "LOOKUP", "ADMIN_SPATIAL_UNIT", "MULTIPLE_SELECT"}

column_type(type_info) == IF type_info \in ColumnTypes THEN type_info ELSE "None"

Column(column_cls, args, kwargs) ==
    [TYPE_INFO |-> column_cls, args |-> args, kwargs |-> kwargs]

\* The name of an administrative spatial unit column is preset by its class.
AdminSpatialUnitName == "admin_spatial_unit"

ColumnName(col) ==
    IF col.TYPE_INFO = "ADMIN_SPATIAL_UNIT" THEN AdminSpatialUnitName ELSE col.args[1]

ColumnNames(ent) == [k \in 1..Len(ent.columns) |-> ColumnName(ent.columns[k])]

add_column(ent, col) ==
    IF \E k \in 1..Len(ent.columns) : ColumnName(ent.columns[k]) = ColumnName(col)
    THEN [ent EXCEPT !.columns =
              [k \in 1..Len(ent.columns) |->
                  IF ColumnName(ent.columns[k]) = ColumnName(col)
                  THEN col ELSE ent.columns[k]]]
    ELSE [ent EXCEPT !.columns = Append(ent.columns, col)]

\* stdm.utils.util.date_from_string / datetime_from_string: a date text is
\* YYYY-MM-DD; any other text is a ValueError.
IsDateText(s) ==
    /\ Len(s) = 10
    /\ \A k \in 1..10 : IF k \in {5, 8} THEN s[k] = "-" ELSE IsDigit(s[k])

date_from_string(value) ==
    IF IsDateText(value) THEN [ok |-> TRUE, value |-> value] ELSE [ok |-> FALSE]

datetime_from_string(value) ==
    IF Len(value) >= 10 /\ IsDateText(SubSeq(value, 1, 10))
    THEN [ok |-> TRUE, value |-> value] ELSE [ok |-> FALSE]

(***************************************************************************)
(* ColumnSerializerCollection and its subclasses.  A serializer class is   *)
(* its COLUMN_TYPE_INFO, the __convert_bounds_type it defines and the       *)
(* _obj_args it defines or inherits.  The registry is the result of the    *)
(* register() calls in the order the module makes them.                    *)
(***************************************************************************)
Serializer(type_info, convert, obj_args) ==
    [COLUMN_TYPE_INFO |-> type_info, convert |-> convert, obj_args |-> obj_args]

Registrations ==
    << Serializer("TEXT", "raw", "base"),
       Serializer("VARCHAR", "int", "base"),
       Serializer("TEXT", "int", "base"),
       Serializer("BIGINT", "int", "base"),
       Serializer("DOUBLE", "float", "base"),
       Serializer("SERIAL", "raw", "base"),
       Serializer("DATE", "date", "base"),
       Serializer("DATETIME", "datetime", "base"),
       Serializer("YES_NO", "raw", "base"),
       Serializer("GEOMETRY", "raw", "geometry"),
       Serializer("FOREIGN_KEY", "raw", "foreign_key"),
       Serializer("LOOKUP", "raw", "foreign_key"),
       Serializer("ADMIN_SPATIAL_UNIT", "raw", "admin_spatial_unit"),
       Serializer("MULTIPLE_SELECT", "raw", "multiple_select") >>

RECURSIVE register(_, _)
register(registry, k) ==
    IF k > Len(Registrations) THEN registry
    ELSE register(DictSet(registry, Registrations[k].COLUMN_TYPE_INFO, Registrations[k]),
                  k + 1)

ColumnRegistry == register(EmptyDict, 1)

NoHandler == Serializer("None", "raw", "base")

handler(type_info) ==
    IF type_info \in DOMAIN ColumnRegistry THEN ColumnRegistry[type_info] ELSE NoHandler

type_info(element) == attribute(element, "TYPE_INFO", "")

\* handler_by_element: [exc, handler], the exception being that of str()
handler_by_element(element) ==
    IF ~str(type_info(element)).ok
    THEN [exc |-> "UnicodeEncodeError", handler |-> NoHandler]
    ELSE [exc |-> "",
          handler |-> IF str(type_info(element)).value = "" THEN NoHandler
                      ELSE handler(str(type_info(element)).value)]

_convert_bounds_type(cls, value) ==
    CASE cls.convert = "int" -> int(value)
      [] cls.convert = "float" -> float(value)
      [] cls.convert = "date" -> date_from_string(value)
      [] cls.convert = "datetime" -> datetime_from_string(value)
      [] OTHER -> [ok |-> TRUE, value |-> value]

\* EntityRelationSerializer.read_xml
EntityRelationSerializer_read_xml(element, prof) ==
    EntityRelation(prof,
        [parent |-> attribute(element, "parent", ""),
         child |-> attribute(element, "child", ""),
         parent_column |-> attribute(element, "parentColumn", ""),
         child_column |-> attribute(element, "childColumn", "")])

\* The _obj_args of the serializer classes: [exc, args, kwargs], exc the
\* exception that escapes ("" for none).
Args(args, kwargs) == [exc |-> "", args |-> args, kwargs |-> kwargs]

GeometryArgs(args, kwargs, geom_type, srid) ==
    IF ~geom_type.ok \/ ~srid.ok
    THEN [exc |-> "ValueError", args |-> args, kwargs |-> kwargs]
    ELSE Args(Append(args, geom_type.value), DictSet(kwargs, "srid", srid.value))

GeometryFrom(args, kwargs, geom_el) ==
    IF isNull(geom_el) THEN Args(args, kwargs)
    ELSE GeometryArgs(args, kwargs, int(attribute(geom_el, "type", <<"2">>)),
                      int(attribute(geom_el, "srid", <<"4", "3", "2", "6">>)))

GeometryColumnSerializer_obj_args(args, kwargs, element) ==
    GeometryFrom(args, kwargs, firstChildElement(element, "Geometry"))

\* a relation that is attached whether it is valid or not
RelationArgsUnchecked(args, kwargs, er) ==
    Args(args, DictSet(kwargs, "entity_relation", er))

\* ForeignKeyColumnSerializer._obj_args, lines 1338-1341
RelationArgs(args, kwargs, er) ==
    IF valid(er) THEN Args(args, DictSet(kwargs, "entity_relation", er))
    ELSE Args(args, kwargs)

\* a lookup that finds no declaration
RelationFromNone(args, kwargs, relation_el, relation_name, prof, entity_relations) ==
    Args(args, kwargs)

\* ForeignKeyColumnSerializer._obj_args, lines 1327-1336
RelationFrom(args, kwargs, relation_el, relation_name, prof, entity_relations) ==
    IF ~isNull(relation_el) /\ relation_name \in DOMAIN entity_relations
    THEN RelationArgs(args, kwargs,
             EntityRelationSerializer_read_xml(entity_relations[relation_name], prof))
    ELSE Args(args, kwargs)

RelationOf(args, kwargs, relation_el, prof, entity_relations) ==
    RelationFrom(args, kwargs, relation_el, attribute(relation_el, "name", ""), prof,
                 entity_relations)

ForeignKeyColumnSerializer_obj_args(args, kwargs, element, prof, entity_relations) ==
    RelationOf(args, kwargs, firstChildElement(element, "Relation"), prof, entity_relations)

AdminSpatialUnitColumnSerializer_obj_args(args, kwargs) == Args(Tail(args), kwargs)

FirstParentArgs(args, kwargs, first_parent) ==
    IF first_parent # "" THEN Args(args, DictSet(kwargs, "first_parent", first_parent))
    ELSE Args(args, kwargs)

AssociationFrom(args, kwargs, assoc_el, assoc_name, associations) ==
    IF ~isNull(assoc_el) /\ assoc_name \in DOMAIN associations
    THEN FirstParentArgs(args, kwargs,
                         attribute(associations[assoc_name], "firstParent", ""))
    ELSE Args(args, kwargs)

AssociationOf(args, kwargs, assoc_el, associations) ==
    AssociationFrom(args, kwargs, assoc_el, attribute(assoc_el, "name", ""), associations)

MultipleSelectColumnSerializer_obj_args(args, kwargs, element, associations) ==
    AssociationOf(args, kwargs, firstChildElement(element, "associationEntity"),
                  associations)

_obj_args(cls, args, kwargs, element, prof, associations, entity_relations) ==
    CASE cls.obj_args = "geometry" ->
            GeometryColumnSerializer_obj_args(args, kwargs, element)
      [] cls.obj_args = "foreign_key" ->
            ForeignKeyColumnSerializer_obj_args(args, kwargs, element, prof,
                                                entity_relations)
      [] cls.obj_args = "admin_spatial_unit" ->
            AdminSpatialUnitColumnSerializer_obj_args(args, kwargs)
      [] cls.obj_args = "multiple_select" ->
            MultipleSelectColumnSerializer_obj_args(args, kwargs, element, associations)
      [] OTHER -> Args(args, kwargs)

\* a bound that is set to the empty text when its conversion fails
SetOrEmpty(kwargs, key, converted) ==
    IF converted.ok THEN DictSet(kwargs, key, converted.value)
    ELSE DictSet(kwargs, key, <<>>)

\* try: kwargs[key] = cls._convert_bounds_type(...) except ValueError: pass
SetUnlessValueError(kwargs, key, converted) ==
    IF converted.ok THEN DictSet(kwargs, key, converted.value) ELSE kwargs

\* The bound attribute of a column element, when present and convertible.
ReadBound(cls, element, attr, key, kwargs) ==
    IF hasAttribute(element, attr)
    THEN SetUnlessValueError(kwargs, key, _convert_bounds_type(cls, element.attrs[attr]))
    ELSE kwargs

FalseText == <<"F", "a", "l", "s", "e">>
TrueText == <<"T", "r", "u", "e">>

CommonKwargs(element) ==
    [description |-> attribute(element, "description", ""),
     index |-> _str_to_bool(attribute(element, "index", FalseText)),
     mandatory |-> _str_to_bool(attribute(element, "mandatory", FalseText)),
     searchable |-> _str_to_bool(attribute(element, "searchable", FalseText)),
     unique |-> _str_to_bool(attribute(element, "unique", FalseText)),
     user_tip |-> attribute(element, "tip", "")]

\* read, lines 1085-1092: the column of the type's class joins the entity
Construct(ent, column_cls, custom) ==
    IF custom.exc # "" THEN [exc |-> custom.exc, entity |-> ent]
    ELSE IF column_cls = "None" THEN [exc |-> "", entity |-> ent]
    ELSE [exc |-> "",
          entity |-> add_column(ent, Column(column_cls, custom.args, custom.kwargs))]

\* ColumnSerializerCollection.read: [exc, entity]
ColumnSerializerCollection_read(cls, element, ent, prof, associations, entity_relations) ==
    IF ~str(type_info(element)).ok THEN [exc |-> "UnicodeEncodeError", entity |-> ent]
    ELSE IF type_info(element) = "" \/ attribute(element, "name", "") = ""
    THEN [exc |-> "", entity |-> ent]
    ELSE Construct(ent, column_type(type_info(element)),
             _obj_args(cls, <<attribute(element, "name", ""), ent.short_name>>,
                       ReadBound(cls, element, "maximum", "maximum",
                           ReadBound(cls, element, "minimum", "minimum",
                               CommonKwargs(element))),
                       element, prof, associations, entity_relations))

\* read_xml, lines 1001-1004
ReadWith(column_handler, element, ent, prof, associations, entity_relations) ==
    IF column_handler = NoHandler THEN [exc |-> "", entity |-> ent]
    ELSE ColumnSerializerCollection_read(column_handler, element, ent, prof,
                                         associations, entity_relations)

\* ColumnSerializerCollection.read_xml: [exc, entity]
ColumnSerializerCollection_read_xml(element, ent, prof, associations, entity_relations) ==
    IF handler_by_element(element).exc # ""
    THEN [exc |-> handler_by_element(element).exc, entity |-> ent]
    ELSE ReadWith(handler_by_element(element).handler, element, ent, prof, associations,
                  entity_relations)

(***************************************************************************)
(* Entity-level serializers.                                               *)
(***************************************************************************)
\* EntitySerializerCollection._registry, in registration order: the class
\* and its entry_tag_name() (GROUP_TAG when it has one, else TAG_NAME).
EntityRegistrations ==
    << [cls |-> "EntitySerializer", entry_tag_name |-> "Entity"],
       [cls |-> "AssociationEntitySerializer", entry_tag_name |-> "Associations"],
       [cls |-> "ValueListSerializer", entry_tag_name |-> "ValueLists"] >>

handler_by_tag_name(tag_name) ==
    LET hits == SelectSeq(EntityRegistrations, LAMBDA s : s.entry_tag_name = tag_name)
    IN  IF Len(hits) = 0 THEN "None" ELSE hits[1].cls

DEPENDENCY_FLAGS == <<"FOREIGN_KEY">>

column_elements(entity_element) ==
    LET cols_group_el == firstChildElement(entity_element, "Columns")
    IN  IF isNull(cols_group_el) THEN <<>> ELSE childNodes(cols_group_el)

has_dependency(element) ==
    \E k \in 1..Len(column_elements(element)) :
        /\ hasAttribute(column_elements(element)[k], "TYPE_INFO")
        /\ \E f \in 1..Len(DEPENDENCY_FLAGS) :
               column_elements(element)[k].attrs["TYPE_INFO"] = DEPENDENCY_FLAGS[f]

\* optional_args[key] = _str_to_bool(text) when the attribute text is not empty
FlagArg(d, element, attr, key) ==
    IF attribute(element, attr, <<>>) # <<>>
    THEN DictSet(d, key, _str_to_bool(attribute(element, attr, <<>>)))
    ELSE d

\* EntitySerializer.read_xml, lines 608-617: the loop over the column
\* elements from the k-th on, r the result of the columns before it
RECURSIVE ReadColumns(_, _, _, _, _, _)
ReadColumns(ces, k, r, prof, associations, entity_relations) ==
    IF k > Len(ces) \/ r.exc # "" THEN r
    ELSE ReadColumns(ces, k + 1,
             IF ~str(ces[k].tag).ok
             THEN [exc |-> "UnicodeEncodeError", entity |-> r.entity]
             ELSE IF str(ces[k].tag).value = "Column"
             THEN ColumnSerializerCollection_read_xml(ces[k], r.entity, prof, associations,
                                                      entity_relations)
             ELSE r,
             prof, associations, entity_relations)

\* EntitySerializer.read_xml, lines 548-604: the entity object
ReadEntity(child_element, short_name) ==
    [Entity(short_name,
            FlagArg(FlagArg(FlagArg(FlagArg(EmptyDict,
                child_element, "global", "is_global"),
                child_element, "proxy", "is_proxy"),
                child_element, "createId", "is_proxy"),
                child_element, "supportsDocuments", "supports_documents"))
        EXCEPT !.props =
            DictSet(FlagArg(FlagArg(EmptyDict,
                child_element, "associative", "is_associative"),
                child_element, "editable", "user_editable"),
                "description", attribute(child_element, "description", ""))]

\* an entity that joins the profile only when its short name is free
AddReadOnce(prof, r) ==
    IF r.exc # "" THEN [exc |-> r.exc, profile |-> prof]
    ELSE IF r.entity.short_name \in ShortNames(prof) THEN [exc |-> "", profile |-> prof]
    ELSE [exc |-> "", profile |-> add_entity(prof, r.entity)]

\* EntitySerializer.read_xml, line 619
AddRead(prof, r) ==
    IF r.exc # "" THEN [exc |-> r.exc, profile |-> prof]
    ELSE [exc |-> "", profile |-> add_entity(prof, r.entity)]

ReadNamed(child_element, short_name, prof, associations, entity_relations) ==
    IF short_name = "" THEN [exc |-> "", profile |-> prof]
    ELSE AddRead(prof,
             ReadColumns(column_elements(child_element), 1,
                         [exc |-> "", entity |-> ReadEntity(child_element, short_name)],
                         prof, associations, entity_relations))

\* EntitySerializer.read_xml: [exc, profile]
EntitySerializer_read_xml(child_element, prof, associations, entity_relations) ==
    ReadNamed(child_element, attribute(child_element, "shortName", ""), prof,
              associations, entity_relations)

\* a code-value that is added when its code is not empty
ReadCodeValueByCode(cd_el, value_list) ==
    IF attribute(cd_el, "code", "") # ""
    THEN add_value(value_list, attribute(cd_el, "value", ""), attribute(cd_el, "code", ""))
    ELSE value_list

\* ValueListSerializer.read_xml, lines 841-848: one CodeValue element
ReadCodeValue(cd_el, value_list) ==
    IF attribute(cd_el, "value", "") # ""
    THEN add_value(value_list, attribute(cd_el, "value", ""), attribute(cd_el, "code", ""))
    ELSE value_list

RECURSIVE ReadCodeValues(_, _, _)
ReadCodeValues(cd_elements, c, value_list) ==
    IF c > Len(cd_elements) THEN value_list
    ELSE ReadCodeValues(cd_elements, c + 1, ReadCodeValue(cd_elements[c], value_list))

RECURSIVE ReadValueLists(_, _, _)
ReadValueLists(value_list_elements, k, prof) ==
    IF k > Len(value_list_elements) THEN prof
    ELSE ReadValueLists(value_list_elements, k + 1,
             IF attribute(value_list_elements[k], "name", "") # ""
             THEN add_entity(prof,
                      ReadCodeValues(elementsByTagName(value_list_elements[k], "CodeValue"),
                                     1,
                                     ValueList(attribute(value_list_elements[k], "name", ""))))
             ELSE prof)

\* ValueListSerializer.read_xml
ValueListSerializer_read_xml(child_element, prof) ==
    ReadValueLists(elementsByTagName(child_element, "ValueList"), 1, prof)

\* SocialTenureSerializer.read_xml
SetUnlessEmpty(prof, attr, short_name) ==
    IF short_name # "" THEN set_social_tenure_attr(prof, attr, short_name) ELSE prof

SocialTenureSerializer_read_xml(child_element, prof) ==
    SetUnlessEmpty(SetUnlessEmpty(prof, "party", attribute(child_element, "party", "")),
                   "spatial_unit", attribute(child_element, "spatialUnit", ""))

RECURSIVE PopulateFrom(_, _, _)
PopulateFrom(er_collection, k, collection) ==
    IF k > Len(er_collection) THEN collection
    ELSE PopulateFrom(er_collection, k + 1,
             IF hasAttribute(er_collection[k], "name")
             THEN DictSet(collection, er_collection[k].attrs["name"], er_collection[k])
             ELSE collection)

_populate_collections_from_element(element, tag_name, collection) ==
    LET group_el == firstChildElement(element, tag_name)
    IN  IF isNull(group_el) THEN collection
        ELSE PopulateFrom(childNodes(group_el), 1, collection)

_populate_entity_relations(element, collection) ==
    _populate_collections_from_element(element, "Relations", collection)

\* an association table filled from the Relations block
_populate_associations_from_relations(element, collection) ==
    _populate_collections_from_element(element, "Relations", collection)

_populate_associations(element, collection) ==
    _populate_collections_from_element(element, "Associations", collection)

(***************************************************************************)
(* The configuration and the version gate.                                 *)
(***************************************************************************)
\* StdmConfiguration.VERSION: 1.2
VERSION == Finite(FALSE, <<"1", "2">>, 1)

\* StdmConfiguration._clear and add_profile
\* the configuration: its profiles by name, and the names in the order the
\* profiles were added in
NoProfiles == [profiles |-> EmptyDict, order |-> <<>>]

_clear(cfg) == NoProfiles

\* a read_xml that keeps the items of the configuration
read_xml_keep(cfg) == cfg

\* read_xml, line 163: reset the items of the configuration
read_xml_reset(cfg) == _clear(cfg)

add_profile(cfg, prof) ==
    [profiles |-> DictSet(cfg.profiles, prof.name, prof),
     order |-> IF prof.name \in DOMAIN cfg.profiles THEN cfg.order
               ELSE Append(cfg.order, prof.name)]

\* ConfigurationFileSerializer.update
update(doc) == [status |-> FALSE, doc |-> NullDocument]

\* read_xml, lines 167-192, yields [exc, doc, updates]: the exception that
\* escapes ("" for none), the local variable document, and the calls of
\* self.update so far.
\* ConfigurationFileSerializer._update_status
_update_status(s) ==
    IF ~update(s.doc).status
    THEN [exc |-> "ConfigurationException", doc |-> s.doc, updates |-> s.updates + 1]
    ELSE [exc |-> "", doc |-> update(s.doc).doc, updates |-> s.updates + 1]

\* a version check that takes the upgrade path also for the current version
CheckVersionOrEqual(s, config_version) ==
    IF ~config_version.ok THEN [s EXCEPT !.exc = "ValueError"]
    ELSE IF ~FloatLess(VERSION, config_version.value) THEN _update_status(s)
    ELSE s

\* a version check that never takes the upgrade path
CheckVersionNoUpgrade(s, config_version) ==
    IF ~config_version.ok THEN [s EXCEPT !.exc = "ValueError"]
    ELSE s

\* lines 188-190
CheckVersion(s, config_version) ==
    IF ~config_version.ok THEN [s EXCEPT !.exc = "ValueError"]
    ELSE IF FloatLess(config_version.value, VERSION) THEN _update_status(s)
    ELSE s

\* lines 178-186
ExtractVersion(s, config_version) ==
    IF s.exc # "" THEN s
    ELSE IF config_version = <<>> THEN [s EXCEPT !.exc = "ConfigurationException"]
    ELSE CheckVersion(s, float(config_version))

\* lines 173-175; doc_element is still the element of the document that
\* read_xml was called with
CheckAttribute(s, doc_el) ==
    IF s.exc # "" THEN s
    ELSE ExtractVersion(IF ~hasAttribute(doc_el, "version") THEN _update_status(s)
                        ELSE s,
                        attribute(doc_el, "version", <<>>))

\* lines 169-171
CheckRoot(s, doc_el) ==
    CheckAttribute(IF isNull(doc_el) THEN _update_status(s) ELSE s, doc_el)

VersionGate(doc) ==
    CheckRoot([exc |-> "", doc |-> doc, updates |-> 0], documentElement(doc))

(***************************************************************************)
(* Writing.  str() of a bool, an int and a float, then the write_xml of    *)
(* each serializer.  A write_xml yields [exc, element]: the parent element *)
(* with what was appended, and the exception that escapes ("" for none).   *)
(***************************************************************************)
str_bool(b) == IF b THEN <<"T", "r", "u", "e">> ELSE <<"F", "a", "l", "s", "e">>

RECURSIVE DigitsOf(_)
DigitsOf(n) ==
    IF n < 10 THEN <<DigitChars[n + 1]>>
    ELSE Append(DigitsOf(n \div 10), DigitChars[(n % 10) + 1])

str_int(n) == IF n < 0 THEN <<"-">> \o DigitsOf(0 - n) ELSE DigitsOf(n)

Zeros(k) == [m \in 1..k |-> "0"]

\* the exponent of the e notation: its sign and at least two digits
ExponentText(x) ==
    (IF x < 0 THEN <<"e", "-">> ELSE <<"e", "+">>)
        \o (IF x > 0 - 10 /\ x < 10 THEN <<"0">> ELSE <<>>)
        \o DigitsOf(IF x < 0 THEN 0 - x ELSE x)

\* d1.d2...dn
Mantissa(d) == IF Len(d) = 1 THEN d ELSE <<d[1], ".">> \o Tail(d)

\* 0.d * 10^exp in fixed notation, ending in .0 when it has no fraction
FixedText(d, exp) ==
    IF exp <= 0 THEN <<"0", ".">> \o Zeros(0 - exp) \o d
    ELSE IF Len(d) <= exp THEN d \o Zeros(exp - Len(d)) \o <<".", "0">>
    ELSE SubSeq(d, 1, exp) \o <<".">> \o SubSeq(d, exp + 1, Len(d))

\* str() of a float of at most 12 digits: '%.12g' that ends in .0 when it
\* has no fraction, for which the e notation is taken below 1e-4 and from
\* 1e11 on
FiniteText(x) ==
    IF x.digits = <<>> THEN <<"0", ".", "0">>
    ELSE IF x.exp < 0 - 3 \/ x.exp > 11 THEN Mantissa(x.digits) \o ExponentText(x.exp - 1)
    ELSE FixedText(x.digits, x.exp)

RoundedExact(v) == Rounded(FALSE, v.digits, v.exp, 12)

\* the value of the double x to 12 significant digits: a repr of at most 12
\* digits within the normal range is that value
TwelveDigits(x) ==
    IF x.digits = <<>> \/ (Len(x.digits) <= 12 /\ x.exp >= 0 - 306 /\ x.exp <= 308) THEN x
    ELSE RoundedExact(Exact(ToDouble(FALSE, x.digits, x.exp)))

\* str() of a float: 12 significant digits
str_float(x) ==
    IF x.kind = "nan" THEN <<"n", "a", "n">>
    ELSE (IF x.neg THEN <<"-">> ELSE <<>>)
             \o (IF x.kind = "inf" THEN <<"i", "n", "f">>
                 ELSE FiniteText(TwelveDigits(x)))

\* str() of a text held as its characters
str_text(text) ==
    IF \A k \in 1..Len(text) : text[k] \notin BeyondAsciiChars
    THEN [ok |-> TRUE, value |-> text] ELSE [ok |-> FALSE]

\* str() of a bound: the bounds of a column are of the type its serializer
\* converts to; [ok |-> FALSE] stands for UnicodeEncodeError
str_bound(cls, value) ==
    CASE cls.convert = "int" -> [ok |-> TRUE, value |-> str_int(value)]
      [] cls.convert = "float" -> [ok |-> TRUE, value |-> str_float(value)]
      [] OTHER -> str_text(value)

Written(element) == [exc |-> "", element |-> element]

appendChild(parent_node, child) ==
    [parent_node EXCEPT !.children = Append(parent_node.children, child)]

\* an attribute of an object: the argument it was constructed with or the
\* value it was assigned, else the default of its class
Flag(d, key, default) == IF key \in DOMAIN d THEN d[key] ELSE default

\* ColumnSerializerCollection.write_xml, lines 1133-1140: [exc, attrs]
WriteBound(w, cls, column, key) ==
    IF w.exc # "" \/ key \notin DOMAIN column.kwargs THEN w
    ELSE IF ~str_bound(cls, column.kwargs[key]).ok
    THEN [w EXCEPT !.exc = "UnicodeEncodeError"]
    ELSE [w EXCEPT !.attrs = DictSet(w.attrs, key, str_bound(cls, column.kwargs[key]).value)]

\* lines 1116-1130
ColumnAttributes(cls, column) ==
    [TYPE_INFO |-> cls.COLUMN_TYPE_INFO,
     description |-> column.kwargs["description"],
     name |-> ColumnName(column),
     index |-> str_bool(column.kwargs["index"]),
     mandatory |-> str_bool(column.kwargs["mandatory"]),
     searchable |-> str_bool(column.kwargs["searchable"]),
     unique |-> str_bool(column.kwargs["unique"]),
     tip |-> column.kwargs["user_tip"]]

\* GeometryColumnSerializer._write_xml
GeometryColumnSerializer_write_xml(column, column_element) ==
    Written(appendChild(column_element,
                Element("Geometry",
                        [srid |-> str_int(column.kwargs["srid"]),
                         type |-> str_int(column.args[3])],
                        <<>>)))

\* ForeignKeyColumnSerializer._write_xml: the relation of the column is
\* None when none was attached
ForeignKeyColumnSerializer_write_xml(column, column_element) ==
    IF "entity_relation" \notin DOMAIN column.kwargs
    THEN [exc |-> "AttributeError", element |-> column_element]
    ELSE Written(appendChild(column_element,
                     Element("Relation",
                             [name |-> column.kwargs["entity_relation"].name], <<>>)))

\* MultipleSelectColumnSerializer._write_xml
MultipleSelectColumnSerializer_write_xml(column, column_element) ==
    IF "association" \notin DOMAIN column.kwargs
    THEN [exc |-> "AttributeError", element |-> column_element]
    ELSE Written(appendChild(column_element,
                     Element("associationEntity",
                             [name |-> column.kwargs["association"]], <<>>)))

_write_xml(cls, column, column_element) ==
    CASE cls.obj_args = "geometry" -> GeometryColumnSerializer_write_xml(column, column_element)
      [] cls.obj_args \in {"foreign_key", "admin_spatial_unit"} ->
            ForeignKeyColumnSerializer_write_xml(column, column_element)
      [] cls.obj_args = "multiple_select" ->
            MultipleSelectColumnSerializer_write_xml(column, column_element)
      [] OTHER -> Written(column_element)

AppendWritten(parent_node, w) ==
    IF w.exc # "" THEN [exc |-> w.exc, element |-> parent_node]
    ELSE Written(appendChild(parent_node, w.element))

\* lines 1142-1145: what the subclass adds, then the element is appended
WriteColumnElement(cls, column, parent_node, w) ==
    IF w.exc # "" THEN [exc |-> w.exc, element |-> parent_node]
    ELSE AppendWritten(parent_node,
             _write_xml(cls, column, Element("Column", w.attrs, <<>>)))

\* ColumnSerializerCollection.write_xml
ColumnSerializerCollection_write_xml(cls, column, parent_node) ==
    WriteColumnElement(cls, column, parent_node,
        WriteBound(WriteBound([exc |-> "", attrs |-> ColumnAttributes(cls, column)],
                              cls, column, "minimum"),
                   cls, column, "maximum"))

\* EntitySerializer.write_xml, lines 707-713
RECURSIVE WriteColumns(_, _, _)
WriteColumns(columns, k, w) ==
    IF k > Len(columns) \/ w.exc # "" THEN w
    ELSE WriteColumns(columns, k + 1,
             IF handler(columns[k].TYPE_INFO) = NoHandler THEN w
             ELSE ColumnSerializerCollection_write_xml(handler(columns[k].TYPE_INFO),
                                                       columns[k], w.element))

\* lines 683-704
EntityAttributes(ent) ==
    [global |-> str_bool(Flag(ent.optional_args, "is_global", FALSE)),
     shortName |-> ent.short_name,
     name |-> ent.short_name,
     description |-> Flag(ent.props, "description", ""),
     associative |-> str_bool(Flag(ent.props, "is_associative", FALSE)),
     editable |-> str_bool(Flag(ent.props, "user_editable", TRUE)),
     createId |-> str_bool(Flag(ent.optional_args, "create_id_column", TRUE)),
     proxy |-> str_bool(Flag(ent.optional_args, "is_proxy", FALSE)),
     supportsDocuments |-> str_bool(Flag(ent.optional_args, "supports_documents", TRUE))]

EntitySerializer_write_xml(ent, parent_node) ==
    AppendWritten(parent_node,
        AppendWritten(Element("Entity", EntityAttributes(ent), <<>>),
                      WriteColumns(ent.columns, 1,
                                   Written(Element("Columns", NoAttrs, <<>>)))))

\* EntitySerializerCollection.group_element
group_element(parent_node, group_tag) ==
    IF isNull(firstChildElement(parent_node, group_tag))
    THEN appendChild(parent_node, Element(group_tag, NoAttrs, <<>>))
    ELSE parent_node

\* group_node.appendChild(element): the group is the first child of the
\* parent with the tag
AppendToGroup(parent_node, group_tag, element) ==
    [parent_node EXCEPT
        !.children[CHOOSE k \in 1..Len(parent_node.children) :
                       /\ parent_node.children[k].tag = group_tag
                       /\ \A m \in 1..(k - 1) : parent_node.children[m].tag # group_tag] =
            appendChild(@, element)]

\* ValueListSerializer.write_xml
ValueListSerializer_write_xml(value_list, parent_node) ==
    Written(AppendToGroup(group_element(parent_node, "ValueLists"), "ValueLists",
                Element("ValueList", [name |-> value_list.short_name],
                        [k \in 1..Len(value_list.values) |->
                            Element("CodeValue",
                                    [value |-> value_list.values[k].value,
                                     code |-> value_list.values[k].code],
                                    <<>>)])))

\* AssociationEntitySerializer.write_xml
AssociationEntitySerializer_write_xml(association_entity, parent_node) ==
    Written(AppendToGroup(group_element(parent_node, "Associations"), "Associations",
                Element("Association",
                        [name |-> association_entity.short_name,
                         shortName |-> association_entity.short_name,
                         firstParent |-> association_entity.first_parent,
                         secondParent |-> association_entity.second_parent],
                        <<>>)))

\* EntitySerializerCollection.handler(e.TYPE_INFO).write_xml
WriteItem(e, parent_node) ==
    CASE e.TYPE_INFO = "ENTITY" -> EntitySerializer_write_xml(e, parent_node)
      [] e.TYPE_INFO = "ASSOCIATION_ENTITY" ->
            AssociationEntitySerializer_write_xml(e, parent_node)
      [] e.TYPE_INFO = "VALUE_LIST" -> ValueListSerializer_write_xml(e, parent_node)
      [] OTHER -> Written(parent_node)

\* ProfileSerializer.write_xml, lines 361-365
RECURSIVE WriteEntities(_, _, _)
WriteEntities(entities, k, w) ==
    IF k > Len(entities) \/ w.exc # "" THEN w
    ELSE WriteEntities(entities, k + 1, WriteItem(entities[k], w.element))

\* EntityRelationSerializer.write_xml
EntityRelationSerializer_write_xml(entity_relation, parent_node) ==
    appendChild(parent_node,
        Element("EntityRelation",
                [name |-> entity_relation.name, parent |-> entity_relation.parent,
                 parentColumn |-> entity_relation.parent_column,
                 child |-> entity_relation.child,
                 childColumn |-> entity_relation.child_column],
                <<>>))

\* lines 368-372
RECURSIVE WriteRelations(_, _, _)
WriteRelations(relations, k, er_parent_element) ==
    IF k > Len(relations) THEN er_parent_element
    ELSE WriteRelations(relations, k + 1,
             EntityRelationSerializer_write_xml(relations[k], er_parent_element))

\* SocialTenureSerializer.write_xml: an attribute of the social tenure that
\* is not set is None
SocialTenureSerializer_write_xml(social_tenure, parent_node) ==
    IF ~({"party", "spatial_unit", "tenure_type_collection"} \subseteq DOMAIN social_tenure)
    THEN [exc |-> "AttributeError", element |-> parent_node]
    ELSE Written(appendChild(parent_node,
                     Element("SocialTenure",
                             [party |-> social_tenure["party"],
                              spatialUnit |-> social_tenure["spatial_unit"],
                              tenureTypeList |-> social_tenure["tenure_type_collection"]],
                             <<>>)))

WriteSocialTenure(prof, w) ==
    IF w.exc # "" THEN w
    ELSE SocialTenureSerializer_write_xml(prof.social_tenure,
             appendChild(w.element,
                 WriteRelations(prof.relations, 1, Element("Relations", NoAttrs, <<>>))))

\* ProfileSerializer.write_xml
ProfileSerializer_write_xml(prof, parent_node) ==
    AppendWritten(parent_node,
        WriteSocialTenure(prof,
            WriteEntities(prof.entities, 1,
                          Written(Element("Profile", [name |-> prof.name], <<>>)))))

\* ConfigurationFileSerializer.write_xml, lines 115-116
RECURSIVE WriteProfiles(_, _, _)
WriteProfiles(profiles, k, w) ==
    IF k > Len(profiles) \/ w.exc # "" THEN w
    ELSE WriteProfiles(profiles, k + 1, ProfileSerializer_write_xml(profiles[k], w.element))

\* ConfigurationFileSerializer.write_xml: [exc, element], the root element
write_xml(cfg) ==
    WriteProfiles([k \in 1..Len(cfg.order) |-> cfg.profiles[cfg.order[k]]],
                  1,
                  Written(Element("Configuration", [version |-> str_float(VERSION)], <<>>)))

(***************************************************************************)
(* Documents.                                                              *)
(***************************************************************************)
Seqs(S, n) == UNION {[1..m -> S] : m \in 0..n}

Column_el(tag, name) ==
    Element("Column", [TYPE_INFO |-> tag, name |-> name], <<>>)

Bounded_el(tag, name, bounds) ==
    Element("Column",
            [a \in {"TYPE_INFO", "name"} \cup DOMAIN bounds |->
                IF a = "TYPE_INFO" THEN tag ELSE IF a = "name" THEN name ELSE bounds[a]],
            <<>>)

Related_el(tag, name, child_tag, ref) ==
    Element("Column", [TYPE_INFO |-> tag, name |-> name],
            <<Element(child_tag, [name |-> ref], <<>>)>>)

Geometry_el(name, type) ==
    Element("Column", [TYPE_INFO |-> "GEOMETRY", name |-> name],
            <<Element("Geometry", [type |-> type, srid |-> <<"4", "3", "2", "6">>], <<>>)>>)

Entity_el(short_name, cols) ==
    Element("Entity",
            [shortName |-> short_name, global |-> FalseText, proxy |-> FalseText,
             createId |-> TrueText, supportsDocuments |-> TrueText,
             associative |-> FalseText, editable |-> TrueText, description |-> ""],
            <<Element("Columns", NoAttrs, cols)>>)

Relation_el(name, parent, child) ==
    Element("EntityRelation",
            [name |-> name, parent |-> parent, parentColumn |-> "id",
             child |-> child, childColumn |-> parent],
            <<>>)

CodeValue_el(code, value) == Element("CodeValue", [code |-> code, value |-> value], <<>>)

ValueList_el(name, cvs) == Element("ValueList", [name |-> name], cvs)

Profile_el(name, children) == Element("Profile", [name |-> name], children)

Document(version, profiles) ==
    [root |-> Element("Configuration", [version |-> version], profiles)]

\* The entities of the dependency scenarios: party has no foreign key,
\* parcel refers to party, hh refers to parcel, survey selects from an
\* association.
PartyEl == Entity_el("party", <<Column_el("TEXT", "name")>>)

ParcelEl ==
    Entity_el("parcel", <<Column_el("TEXT", "code"),
                          Related_el("FOREIGN_KEY", "owner_id", "Relation", "parcel_owner")>>)

HouseholdEl ==
    Entity_el("hh", <<Related_el("FOREIGN_KEY", "parcel_id", "Relation", "hh_parcel")>>)

SurveyEl ==
    Entity_el("survey",
              <<Related_el("MULTIPLE_SELECT", "crops", "associationEntity", "party_parcel")>>)

RelationsEl ==
    Element("Relations", NoAttrs,
            << Relation_el("parcel_owner", "party", "parcel"),
               Relation_el("hh_parcel", "parcel", "hh"),
               Relation_el("person_status", "status", "person"),
               Relation_el("party_status", "status", "party"),
               Element("EntityRelation", [parent |-> "party", child |-> "party"], <<>>) >>)

AssociationsEl ==
    Element("Associations", NoAttrs,
            << Element("Association",
                       [name |-> "party_parcel", shortName |-> "party_parcel",
                        firstParent |-> "party", secondParent |-> "parcel"], <<>>),
               Element("Association",
                       [shortName |-> "unnamed", firstParent |-> "parcel",
                        secondParent |-> "party"], <<>>) >>)

StatusEl == ValueList_el("status", <<CodeValue_el("1", "Active")>>)

ValueListsEl == Element("ValueLists", NoAttrs, <<StatusEl>>)

SocialTenureEl ==
    Element("SocialTenure",
            [party |-> "party", spatialUnit |-> "parcel", tenureTypeList |-> "status"],
            <<>>)

CurrentVersion == <<"1", ".", "2">>

\* Documents of one profile whose children come in every order.
ChildPool ==
    {ValueListsEl, PartyEl, ParcelEl, HouseholdEl, SurveyEl, RelationsEl,
     AssociationsEl, SocialTenureEl}

OrderingDocuments ==
    {Document(CurrentVersion, <<Profile_el("default", cs)>>) : cs \in Seqs(ChildPool, MaxChildren)}

\* Documents of one entity, person, whose columns vary.
ColumnPool ==
    { Column_el("TEXT", "name"),
      Column_el("VARCHAR", "name"),
      Bounded_el("BIGINT", "age", [minimum |-> <<"1">>, maximum |-> <<"a", "b", "c">>]),
      Column_el("BLOB", "photo"),
      Element("Column", [name |-> "untyped"], <<>>),
      Element("Column", [TYPE_INFO |-> "TEXT"], <<>>),
      Element("Note", [TYPE_INFO |-> "TEXT", name |-> "note"], <<>>),
      Related_el("FOREIGN_KEY", "party_id", "Relation", "party_status"),
      Column_el("FOREIGN_KEY", "plain_id"),
      Related_el("FOREIGN_KEY", "assoc_id", "Relation", "party_parcel"),
      Related_el("LOOKUP", "status", "Relation", "person_status"),
      Column_el("ADMIN_SPATIAL_UNIT", "admin"),
      Related_el("MULTIPLE_SELECT", "crops", "associationEntity", "party_parcel"),
      Related_el("MULTIPLE_SELECT", "owners", "associationEntity", "parcel_owner"),
      Geometry_el("shape", <<"2">>),
      Geometry_el("outline", <<"x">>) }

ColumnDocuments ==
    {Document(CurrentVersion,
              <<Profile_el("default",
                           <<ValueListsEl, PartyEl, Entity_el("person", SubSeq(cs, 1, Len(cs))),
                             RelationsEl, AssociationsEl>>)>>) :
        cs \in Seqs(ColumnPool, MaxColumns)}

\* Documents of person with one administrative spatial unit column.
AdminPool ==
    { Related_el("ADMIN_SPATIAL_UNIT", "unit", "Relation", "party_status"),
      Related_el("ADMIN_SPATIAL_UNIT", "unit", "Relation", "person_status"),
      Related_el("ADMIN_SPATIAL_UNIT", "unit", "Relation", "undeclared") }

AdminDocuments ==
    {Document(CurrentVersion,
              <<Profile_el("default",
                           <<ValueListsEl, PartyEl, Entity_el("person", <<c>>),
                             RelationsEl, AssociationsEl>>)>>) :
        c \in AdminPool}

\* Documents of one entity with one column that has bounds.
BoundTexts ==
    { <<"1">>, <<"4", "2">>, <<"-", "3">>, <<" ", "7", " ">>, <<"a", "b", "c">>, <<>>,
      <<"2", ".", "5">>, <<"2", "0", "1", "6", "-", "0", "2", "-", "1", "5">>,
      <<"\t", "7", "\n">>, <<"-", " ", "3">>, <<"1", "e", "1">> }

BoundAttrs ==
    {EmptyDict} \cup {[minimum |-> t] : t \in BoundTexts}
                \cup {[maximum |-> t] : t \in BoundTexts}
                \cup {[minimum |-> t, maximum |-> u] : t \in BoundTexts, u \in BoundTexts}

BoundedKinds == {"TEXT", "VARCHAR", "BIGINT", "DOUBLE", "SERIAL", "DATE", "DATETIME", "YES_NO"}

BoundDocuments ==
    {Document(CurrentVersion,
              <<Profile_el("default", <<Entity_el("person", <<Bounded_el(k, "age", b)>>)>>)>>) :
        k \in BoundedKinds, b \in BoundAttrs}

\* Documents of one column whose bounds are at the edges of the conversions:
\* a space of unicode beyond ASCII, numbers beyond the largest double and
\* below the least, and more digits than a double holds.
EdgeTexts ==
    { <<"", "7">>, <<"1", ".", "8", "e", "3", "0", "8">>,
      <<"-", "1", ".", "8", "e", "3", "0", "8">>, <<"1", "e", "-", "3", "2", "4">>,
      <<"0", ".", "1", "0", "0", "0", "0", "0", "0", "0", "0", "0", "0", "0", "0", "0",
        "0", "0", "1">> }

EdgeAttrs ==
    {[minimum |-> t] : t \in EdgeTexts}
        \cup {[minimum |-> <<"-", "1", ".", "8", "e", "3", "0", "8">>,
               maximum |-> <<"1", ".", "8", "e", "3", "0", "8">>]}

EdgeDocuments ==
    {Document(CurrentVersion,
              <<Profile_el("default", <<Entity_el("person", <<Bounded_el(k, "age", b)>>)>>)>>) :
        k \in {"VARCHAR", "BIGINT", "DOUBLE"}, b \in EdgeAttrs}

\* Documents of value lists.
CodeValuePool ==
    {CodeValue_el("1", "Active"), CodeValue_el("", ""), CodeValue_el("2", ""),
     CodeValue_el("", "Pending")}

ValueListPool ==
    {StatusEl, ValueList_el("gender", <<>>), ValueList_el("", <<CodeValue_el("1", "Active")>>),
     Element("ValueList", NoAttrs, <<CodeValue_el("1", "Active")>>),
     ValueList_el("status", <<CodeValue_el("3", "Closed")>>)}

ValueListDocuments ==
    {Document(CurrentVersion,
              <<Profile_el("default", <<Element("ValueLists", NoAttrs, vls), PartyEl>>)>>) :
        vls \in {<<ValueList_el(n, SubSeq(cvs, 1, Len(cvs)))>> :
                    n \in {"status", ""}, cvs \in Seqs(CodeValuePool, MaxCodeValues)}
                \cup Seqs(ValueListPool, MaxValueLists)}

\* Documents of one entity with one column whose flags vary.
BoolTexts ==
    { <<>>, <<"t">>, <<"T">>, <<"f">>, <<"1">>, <<"T", "r", "u", "e">>,
      <<"F", "a", "l", "s", "e">>, <<"t", "r", "u", "e">>, <<"T", "R", "U", "E">>,
      <<"t", "x">>, <<"x", "t">>, <<"y", "e", "s">>, <<" ", "T">> }

FlagAttributes == {"index", "mandatory", "searchable", "unique"}

BoolDocuments ==
    {Document(CurrentVersion,
              <<Profile_el("default",
                           <<Entity_el("person",
                                       <<Bounded_el("TEXT", "flagged",
                                                    [x \in {a} |-> t])>>)>>)>>) :
        a \in FlagAttributes, t \in BoolTexts}

\* Documents whose entity-like elements share the short name party.
CollisionPool ==
    { PartyEl,
      Entity_el("party", <<Column_el("FOREIGN_KEY", "ref")>>),
      Entity_el("party", <<Column_el("TEXT", "alias")>>),
      Element("ValueLists", NoAttrs,
              <<ValueList_el("party", <<CodeValue_el("1", "Active")>>)>>) }

CollisionDocuments ==
    {Document(CurrentVersion, <<Profile_el("default", cs)>>) :
        cs \in Seqs(CollisionPool, MaxChildren)}

\* Documents of one entity, unit, whose capability flags vary.
EntityFlagAttributes ==
    {"global", "proxy", "createId", "supportsDocuments", "associative", "editable"}

EntityFlags ==
    {EmptyDict}
        \cup {[x \in {a} |-> t] : a \in EntityFlagAttributes, t \in {TrueText, FalseText, <<>>}}
        \cup [{"proxy", "createId"} -> {TrueText, FalseText}]

EntityFlagDocuments ==
    {Document(CurrentVersion,
              <<Profile_el("default",
                           <<Element("Entity",
                                     [a \in {"shortName"} \cup DOMAIN flags |->
                                         IF a = "shortName" THEN "unit" ELSE flags[a]],
                                     <<Element("Columns", NoAttrs, <<>>)>>)>>)>>) :
        flags \in EntityFlags}

\* Documents of a profile whose SocialTenure element has each of its
\* attributes set, empty or absent.
TenureNames == [party |-> "party", spatialUnit |-> "parcel", tenureTypeList |-> "status"]

SocialTenurePool ==
    {Element("SocialTenure", [a \in DOMAIN f |-> IF f[a] THEN TenureNames[a] ELSE ""], <<>>) :
        f \in UNION {[D -> BOOLEAN] : D \in SUBSET DOMAIN TenureNames}}

SocialTenureDocuments ==
    {Document(CurrentVersion,
              <<Profile_el("default", <<ValueListsEl, PartyEl, ParcelEl, st>>)>>) :
        st \in SocialTenurePool}

\* Documents of a profile with Entity elements without short name, without
\* and with a foreign key column.
UnnamedEl ==
    Element("Entity", [description |-> ""],
            <<Element("Columns", NoAttrs, <<Column_el("TEXT", "name")>>)>>)

UnnamedDependentEl == Entity_el("", <<Column_el("FOREIGN_KEY", "ref")>>)

UnnamedPool == {UnnamedEl, UnnamedDependentEl, ParcelEl, ValueListsEl, AssociationsEl}

UnnamedDocuments ==
    {Document(CurrentVersion, <<Profile_el("default", cs)>>) :
        cs \in Seqs(UnnamedPool, MaxChildren)}

\* Documents of person with a type or a tag beyond ASCII among its columns.
EncodingPool ==
    { Column_el("TEXT", "name"),
      Column_el("TÉXT", "nom"),
      Element("Colonné", [TYPE_INFO |-> "TEXT", name |-> "note"], <<>>) }

EncodingDocuments ==
    {Document(CurrentVersion,
              <<Profile_el("default", <<Entity_el("person", SubSeq(cs, 1, Len(cs)))>>)>>) :
        cs \in Seqs(EncodingPool, MaxColumns)}

ProfileDocuments ==
    OrderingDocuments \cup ColumnDocuments \cup BoundDocuments \cup ValueListDocuments
        \cup BoolDocuments \cup CollisionDocuments \cup EntityFlagDocuments
        \cup AdminDocuments \cup SocialTenureDocuments \cup UnnamedDocuments
        \cup EncodingDocuments \cup EdgeDocuments

\* Documents of several profiles and of every kind of version.
VersionTexts ==
    { CurrentVersion, <<"1", ".", "3">>, <<"2">>, <<"1", ".", "1">>, <<"0", ".", "9">>,
      <<>>, <<"a", "b", "c">>, <<"1", "e", "1">>, <<"-", "i", "n", "f">>,
      <<"1", ".", "1", "9", "9", "9", "9", "9", "9", "9", "9", "9", "9", "9", "9", "9",
        "9", "9">> }

ProfilePool ==
    { Profile_el("default", <<ParcelEl, PartyEl, RelationsEl, SocialTenureEl>>),
      Profile_el("default", <<ValueListsEl>>),
      Profile_el("rural", <<PartyEl>>),
      Profile_el("", <<PartyEl>>),
      Element("Profile", NoAttrs, <<PartyEl>>),
      Profile_el("outer", <<Profile_el("inner", <<>>)>>) }

\* The documents of the current version have up to MaxProfiles profiles;
\* the documents of another version, or of none, have one.
Documents ==
    {Document(CurrentVersion, SubSeq(ps, 1, Len(ps))) : ps \in Seqs(ProfilePool, MaxProfiles)}
    \cup {Document(v, <<p>>) : v \in VersionTexts, p \in ProfilePool}
    \cup {[root |-> Element("Configuration", NoAttrs, <<p>>)] : p \in ProfilePool}
    \cup {NullDocument}

(***************************************************************************)
(* ConfigurationFileSerializer.read_xml, step by step: the reset and the   *)
(* version gate, then _load_config_items over the profile elements, each   *)
(* read by ProfileSerializer.read_xml.                                     *)
(***************************************************************************)
\* the direct children only, instead of every descendant
profile_children ==
    SelectSeq(childNodes(doc_element), LAMBDA el : el.tag = "Profile")

profile_elements == elementsByTagName(doc_element, "Profile")

profile_element == profile_elements[i]

Raise(exc) ==
    /\ pc' = "idle"
    /\ outcome' = exc

\* read_xml, lines 192-195, or the exception of the gate
Gated(gate) ==
    IF gate.exc # ""
    THEN /\ Raise(gate.exc)
         /\ UNCHANGED <<doc_element, i>>
    ELSE /\ doc_element' = documentElement(gate.doc)
         /\ i' = 1
         /\ pc' = "load_items"
         /\ outcome' = "running"

\* read_xml, lines 162-192
ReadXml(doc) ==
    /\ pc = "idle"
    /\ loads' = loads + 1
    /\ document' = doc
    /\ config' = read_xml_reset(config)
    /\ Gated(VersionGate(doc))
    /\ updates' = VersionGate(doc).updates
    /\ UNCHANGED <<profile, association_elements, entity_relation_elements,
                   deferred_elements, j>>

\* ProfileSerializer.read_xml, lines 276-294: the name, the profile object
\* and the two lookup tables
BeginProfile ==
    /\ pc = "load_items"
    /\ i <= Len(profile_elements)
    /\ IF attribute(profile_element, "name", "") = ""
       THEN /\ i' = i + 1
            /\ UNCHANGED <<pc, profile, association_elements, entity_relation_elements>>
       ELSE /\ profile' = Profile(attribute(profile_element, "name", ""))
            /\ association_elements' = _populate_associations(profile_element, EmptyDict)
            /\ entity_relation_elements' =
                   _populate_entity_relations(profile_element, EmptyDict)
            /\ pc' = "value_lists"
            /\ UNCHANGED i
    /\ UNCHANGED <<config, document, doc_element, outcome, deferred_elements, j, loads>>
    /\ UNCHANGED <<path, files, handle, op, updates>>

\* ProfileSerializer.read_xml, lines 300-306
ReadValueListsGroup ==
    /\ pc = "value_lists"
    /\ profile' =
           IF isNull(firstChildElement(profile_element, "ValueLists")) THEN profile
           ELSE ValueListSerializer_read_xml(firstChildElement(profile_element, "ValueLists"),
                                             profile)
    /\ deferred_elements' = <<>>
    /\ j' = 1
    /\ pc' = "first_pass"
    /\ UNCHANGED <<config, document, doc_element, outcome, i, association_elements,
                   entity_relation_elements, loads>>
    /\ UNCHANGED <<path, files, handle, op, updates>>

\* item_serializer.read_xml of an Entity element, and the exception that
\* may escape it
Read(r) ==
    IF r.exc # ""
    THEN /\ Raise(r.exc)
         /\ UNCHANGED profile
    ELSE /\ profile' = r.profile
         /\ UNCHANGED <<pc, outcome>>

ReadEntityElement(el) ==
    Read(EntitySerializer_read_xml(el, profile, association_elements,
                                   entity_relation_elements))

\* a queue that grows at its head
DeferFirst(deferred, child_element) == <<child_element>> \o deferred

\* line 328: deferred_elements.append(child_element)
Defer(deferred, child_element) == Append(deferred, child_element)

\* a first pass that reads every Entity element and queues it as well
FirstPassOfBoth(child_element) ==
    IF child_element.tag = "Entity" /\ handler_by_tag_name(child_element.tag) # "None"
    THEN /\ ReadEntityElement(child_element)
         /\ deferred_elements' = Defer(deferred_elements, child_element)
    ELSE UNCHANGED <<profile, pc, outcome, deferred_elements>>

FirstPassOf(child_element) ==
    IF child_element.tag = "Entity" /\ handler_by_tag_name(child_element.tag) # "None"
    THEN IF ~has_dependency(child_element)
         THEN /\ ReadEntityElement(child_element)
              /\ UNCHANGED deferred_elements
         ELSE /\ deferred_elements' = Defer(deferred_elements, child_element)
              /\ UNCHANGED <<profile, pc, outcome>>
    ELSE UNCHANGED <<profile, pc, outcome, deferred_elements>>

\* ProfileSerializer.read_xml, lines 309-328: one child of the first pass
FirstPass ==
    /\ pc = "first_pass"
    /\ j <= Len(childNodes(profile_element))
    /\ j' = j + 1
    /\ FirstPassOf(childNodes(profile_element)[j])
    /\ UNCHANGED <<config, document, doc_element, i, association_elements,
                   entity_relation_elements, loads>>
    /\ UNCHANGED <<path, files, handle, op, updates>>

\* the end of the first pass
EndFirstPass ==
    /\ pc = "first_pass"
    /\ j > Len(childNodes(profile_element))
    /\ pc' = "deferred"
    /\ j' = 1
    /\ UNCHANGED <<config, document, doc_element, outcome, i, profile,
                   association_elements, entity_relation_elements, deferred_elements, loads>>
    /\ UNCHANGED <<path, files, handle, op, updates>>

\* ProfileSerializer.read_xml, lines 331-334: one deferred element
Deferred ==
    /\ pc = "deferred"
    /\ j <= Len(deferred_elements)
    /\ j' = j + 1
    /\ ReadEntityElement(deferred_elements[j])
    /\ UNCHANGED <<config, document, doc_element, i, association_elements,
                   entity_relation_elements, deferred_elements, loads>>
    /\ UNCHANGED <<path, files, handle, op, updates>>

SetSocialTenure(str_el) ==
    IF isNull(str_el) THEN profile ELSE SocialTenureSerializer_read_xml(str_el, profile)

\* ProfileSerializer.read_xml, lines 337-343, and _load_config_items,
\* lines 208-209: the social tenure, then the profile joins the configuration
\* and the locals of ProfileSerializer.read_xml are gone
EndProfile ==
    /\ pc = "deferred"
    /\ j > Len(deferred_elements)
    /\ config' = add_profile(config,
                      SetSocialTenure(firstChildElement(profile_element, "SocialTenure")))
    /\ i' = i + 1
    /\ pc' = "load_items"
    /\ profile' = NoProfile
    /\ association_elements' = EmptyDict
    /\ entity_relation_elements' = EmptyDict
    /\ deferred_elements' = <<>>
    /\ j' = 1
    /\ UNCHANGED <<document, doc_element, outcome, loads>>
    /\ UNCHANGED <<path, files, handle, op, updates>>

\* _load_config_items and read_xml return
EndReadXml ==
    /\ pc = "load_items"
    /\ i > Len(profile_elements)
    /\ pc' = "idle"
    /\ outcome' = "ok"
    /\ doc_element' = NullElement
    /\ i' = 1
    /\ UNCHANGED <<config, document, profile, association_elements,
                   entity_relation_elements, deferred_elements, j, loads>>
    /\ handle' = (IF handle = "open" THEN "released" ELSE handle)
    /\ UNCHANGED <<path, files, op, updates>>

Step ==
    \/ BeginProfile
    \/ ReadValueListsGroup
    \/ FirstPass
    \/ EndFirstPass
    \/ Deferred
    \/ EndProfile
    \/ EndReadXml

\* read_xml called with a document
Load ==
    /\ pc = "idle" /\ loads < MaxLoads
    /\ \E doc \in Documents : ReadXml(doc)
    /\ op' = "read_xml"
    /\ UNCHANGED <<path, files, handle>>

LoadProfileDocument ==
    /\ pc = "idle" /\ loads = 0
    /\ \E doc \in ProfileDocuments : ReadXml(doc)
    /\ op' = "read_xml"
    /\ UNCHANGED <<path, files, handle>>

\* The state after construction: the configuration singleton holds no profile.
Init ==
    /\ config = NoProfiles
    /\ document = NullDocument
    /\ doc_element = NullElement
    /\ pc = "idle"
    /\ outcome = "none"
    /\ i = 1
    /\ profile = NoProfile
    /\ association_elements = EmptyDict
    /\ entity_relation_elements = EmptyDict
    /\ deferred_elements = <<>>
    /\ j = 1
    /\ loads = 0
    /\ path = <<>>
    /\ files = EmptyDict
    /\ handle = "none"
    /\ op = "none"
    /\ updates = 0

Next == Load \/ Step

\* Loads of the documents of several profiles, one after another.
Spec == Init /\ [][Next]_vars

NextProfile == LoadProfileDocument \/ Step

\* One load of a document of one profile.
SpecProfile == Init /\ [][NextProfile]_vars

(***************************************************************************)
(* save and load.  A path is a text; a file is whether it exists, whether  *)
(* it can be opened for reading and for writing, and its content.  The     *)
(* QFile that an operation has opened is released when the operation       *)
(* returns and its locals go; no code closes it, so it is still open when  *)
(* the operation raises.                                                   *)
(***************************************************************************)
LastOf(s, c) ==
    IF \E k \in 1..Len(s) : s[k] = c
    THEN CHOOSE k \in 1..Len(s) : s[k] = c /\ \A m \in (k + 1)..Len(s) : s[m] # c
    ELSE 0

\* QFileInfo.suffix: what follows the last dot of the file name, the file
\* name being what follows the last slash of the path
suffix(p) ==
    IF LastOf(p, ".") <= LastOf(p, "/") THEN <<>>
    ELSE SubSeq(p, LastOf(p, ".") + 1, Len(p))

\* a unicode object, and its attribute lower: a bound method, which is not
\* called at line 85
unicode(text) == [type |-> "unicode", value |-> text]

lower_method(u) == [type |-> "builtin_function_or_method", self |-> u]

\* objects of different types are not equal
NotEqual(a, b) == a.type # b.type \/ a.value # b.value

\* save, lines 85-87:
\* if not unicode(save_file_info.suffix()).lower != 'stc': path + '.stc'
NormalisedPath(p) ==
    IF ~NotEqual(lower_method(unicode(suffix(p))), unicode(<<"s", "t", "c">>))
    THEN p \o <<".", "s", "t", "c">>
    ELSE p

\* StdmConfiguration.is_null
is_null(cfg) == cfg.profiles = EmptyDict

\* the content of a file: the bytes of a document, or bytes that are none
NoContent == [wellformed |-> FALSE, doc |-> NullDocument]

toByteArray(doc) == [wellformed |-> TRUE, doc |-> doc]

\* QDomDocument.setContent: [status, doc]
setContent(content) == [status |-> content.wellformed, doc |-> content.doc]

Missing == [exists |-> FALSE, readable |-> FALSE, writable |-> TRUE, content |-> NoContent]

\* QFile.exists
exists(fs, p) == p \in DOMAIN fs /\ fs[p].exists

\* QFile.open(QIODevice.ReadOnly) and QFile.open(QIODevice.WriteOnly)
CanRead(fs, p) == exists(fs, p) /\ fs[p].readable

CanWrite(fs, p) == p \in DOMAIN fs /\ fs[p].writable

\* the file opened for writing exists and is empty
Opened(fs, p) ==
    [fs EXCEPT ![p] = [exists |-> TRUE, readable |-> IF fs[p].exists THEN fs[p].readable ELSE TRUE,
                       writable |-> TRUE, content |-> NoContent]]

\* save, lines 96-100: the document, then the bytes; -1 is the failure of
\* the device
SaveWrite(p, w) ==
    IF w.exc # ""
    THEN /\ Raise(w.exc)
         /\ files' = Opened(files, p)
         /\ handle' = "open"
    ELSE \E failed \in BOOLEAN :
             IF failed
             THEN /\ Raise("IOError")
                  /\ files' = Opened(files, p)
                  /\ handle' = "open"
             ELSE /\ files' = [Opened(files, p) EXCEPT
                                  ![p].content = toByteArray([root |-> w.element])]
                  /\ pc' = "idle"
                  /\ outcome' = "ok"
                  /\ handle' = "released"

\* a save that writes without the test of open
SaveAsUnchecked(p) == SaveWrite(p, write_xml(config))

\* lines 89-93
SaveAs(p) ==
    IF ~CanWrite(files, p)
    THEN /\ Raise("IOError")
         /\ handle' = "none"
         /\ UNCHANGED files
    ELSE SaveWrite(p, write_xml(config))

\* ConfigurationFileSerializer.save
Save ==
    /\ pc = "idle"
    /\ op' = "save"
    /\ IF is_null(config)
       THEN /\ Raise("ConfigurationException")
            /\ handle' = "none"
            /\ UNCHANGED <<path, files>>
       ELSE IF path = <<>>
       THEN /\ Raise("IOError")
            /\ handle' = "none"
            /\ UNCHANGED <<path, files>>
       ELSE /\ path' = NormalisedPath(path)
            /\ SaveAs(NormalisedPath(path))
    /\ UNCHANGED <<config, document, doc_element, i, profile, association_elements,
                   entity_relation_elements, deferred_elements, j, loads, updates>>

\* a load that resets the configuration before it looks at the file
LoadRaiseReset(exc, opened) ==
    /\ Raise(exc)
    /\ handle' = (IF opened THEN "open" ELSE "none")
    /\ loads' = loads + 1
    /\ config' = read_xml_reset(config)
    /\ UNCHANGED <<document, doc_element, i, profile, association_elements,
                   entity_relation_elements, deferred_elements, j, updates>>

\* load, lines 123-137: an exception before read_xml is called
LoadRaise(exc, opened) ==
    /\ Raise(exc)
    /\ handle' = (IF opened THEN "open" ELSE "none")
    /\ loads' = loads + 1
    /\ UNCHANGED <<config, document, doc_element, i, profile, association_elements,
                   entity_relation_elements, deferred_elements, j, updates>>

LoadContent(parsed) ==
    IF ~parsed.status THEN LoadRaise("ConfigurationException", TRUE)
    ELSE /\ ReadXml(parsed.doc)
         /\ handle' = "open"

\* ConfigurationFileSerializer.load
LoadFile ==
    /\ pc = "idle" /\ loads < MaxLoads
    /\ op' = "load"
    /\ UNCHANGED <<path, files>>
    /\ IF ~exists(files, path) THEN LoadRaise("IOError", FALSE)
       ELSE IF ~CanRead(files, path) THEN LoadRaise("IOError", FALSE)
       ELSE LoadContent(setContent(files[path].content))

\* The configurations that save finds: built through the classes of
\* stdm.data.configuration, with every attribute set.
DefaultKwargs ==
    [description |-> "", index |-> FALSE, mandatory |-> FALSE, searchable |-> FALSE,
     unique |-> FALSE, user_tip |-> ""]

BuiltColumn(column_cls, args, kwargs) == Column(column_cls, args, kwargs @@ DefaultKwargs)

BuiltEntity(short_name, proxy, create_id, columns) ==
    [Entity(short_name,
            [is_global |-> FALSE, is_proxy |-> proxy, create_id_column |-> create_id,
             supports_documents |-> TRUE])
        EXCEPT !.props = [is_associative |-> FALSE, user_editable |-> TRUE,
                          description |-> ""],
               !.columns = columns]

BuiltStatus == add_value(ValueList("status"), "Active", "1")

BuiltParty ==
    BuiltEntity("party", FALSE, TRUE,
        << BuiltColumn("TEXT", <<"name", "party">>, [mandatory |-> TRUE]),
           BuiltColumn("BIGINT", <<"age", "party">>, [minimum |-> 1, maximum |-> 42]) >>)

BuiltOwner ==
    [name |-> "parcel_owner", parent |-> "party", child |-> "parcel",
     parent_column |-> "id", child_column |-> "owner_id",
     parent_resolved |-> TRUE, child_resolved |-> TRUE]

BuiltParcel ==
    BuiltEntity("parcel", FALSE, TRUE,
        << BuiltColumn("GEOMETRY", <<"shape", "parcel", 2>>, [srid |-> 4326]),
           BuiltColumn("FOREIGN_KEY", <<"owner_id", "parcel">>,
                       [entity_relation |-> BuiltOwner]) >>)

BuiltPlot ==
    BuiltEntity("parcel", TRUE, FALSE,
        << BuiltColumn("GEOMETRY", <<"shape", "parcel", 2>>, [srid |-> 4326]),
           BuiltColumn("DOUBLE", <<"area", "parcel">>,
                       [minimum |-> Finite(TRUE, <<"2", "5">>, 1),
                        maximum |-> Finite(FALSE, <<"1", "0", "0", "5">>, 1)]) >>)

\* a serial column whose minimum is a text beyond ASCII
BuiltNote ==
    BuiltEntity("note", FALSE, TRUE,
        << BuiltColumn("SERIAL", <<"number", "note">>, [minimum |-> <<"n", "°", "1">>]) >>)

BuiltGender ==
    add_value(add_value(ValueList("gender"), "Male", "M"), "Female", "F")

BuiltTenure ==
    [party |-> "party", spatial_unit |-> "parcel", tenure_type_collection |-> "status"]

BuiltProfile(name, entities, relations, social_tenure) ==
    [name |-> name, entities |-> entities, relations |-> relations,
     social_tenure |-> social_tenure]

BuiltProfiles ==
    { BuiltProfile("default", <<BuiltStatus, BuiltParty, BuiltParcel>>, <<BuiltOwner>>,
                   BuiltTenure),
      BuiltProfile("default", <<BuiltParty, BuiltPlot, BuiltStatus>>, <<>>, BuiltTenure),
      BuiltProfile("rural", <<BuiltStatus, BuiltGender, BuiltParty, BuiltPlot>>, <<>>,
                   BuiltTenure),
      BuiltProfile("default", <<BuiltParty>>, <<>>, EmptyDict),
      BuiltProfile("rural", <<BuiltStatus, BuiltParty, BuiltPlot, BuiltNote>>, <<>>,
                   BuiltTenure) }

BuiltConfigurations ==
    {NoProfiles}
        \cup {add_profile(NoProfiles, p) : p \in BuiltProfiles}
        \cup {add_profile(add_profile(NoProfiles, pq[1]), pq[2]) :
                 pq \in {x \in BuiltProfiles \X BuiltProfiles : x[1].name # x[2].name}}

\* The paths of the serializer and the files they may name.
Paths ==
    { <<>>, <<"c">>, <<"c", ".", "s", "t", "c">>, <<"c", ".", "S", "T", "C">>,
      <<"c", ".", "S", "t", "c">>, <<"c", ".", "x", "m", "l">>,
      <<"d", ".", "e", "/", "c">>, <<"c", ".", "s", "t", "c", ".", "b">> }

FilePaths == (Paths \ {<<>>}) \cup {p \o <<".", "s", "t", "c">> : p \in Paths \ {<<>>}}

FileContents ==
    { NoContent,
      toByteArray(Document(CurrentVersion, <<Profile_el("default", <<PartyEl>>)>>)),
      toByteArray(Document(<<"1", ".", "1">>, <<Profile_el("default", <<PartyEl>>)>>)) }

FileStates ==
    { Missing,
      [exists |-> FALSE, readable |-> FALSE, writable |-> FALSE, content |-> NoContent] }
        \cup {[exists |-> TRUE, readable |-> r, writable |-> w, content |-> c] :
                 r \in BOOLEAN, w \in BOOLEAN, c \in FileContents}

\* The state after construction of a serializer for a path: the
\* configuration singleton holds what was built, the file of the path is in
\* any state and no other file exists.
InitFile ==
    /\ config \in BuiltConfigurations
    /\ path \in Paths
    /\ \E f \in FileStates : files = [p \in FilePaths |-> IF p = path THEN f ELSE Missing]
    /\ document = NullDocument
    /\ doc_element = NullElement
    /\ pc = "idle"
    /\ outcome = "none"
    /\ i = 1
    /\ profile = NoProfile
    /\ association_elements = EmptyDict
    /\ entity_relation_elements = EmptyDict
    /\ deferred_elements = <<>>
    /\ j = 1
    /\ loads = 0
    /\ handle = "none"
    /\ op = "none"
    /\ updates = 0

NextFile == Save \/ LoadFile \/ Step

\* Saves and loads of a serializer, one after another.
SpecFile == InitFile /\ [][NextFile]_vars

(***************************************************************************)
(* Properties.  The documents are read back from the variable document,    *)
(* by their structure, and the expected results are written out or         *)
(* computed from the structure alone.                                      *)
(***************************************************************************)
Range(s) == {s[k] : k \in DOMAIN s}

\* a read_xml that has returned or raised
Returned == pc = "idle" /\ loads > 0

Loaded == Returned /\ outcome = "ok"

RECURSIVE Within(_)
Within(el) == UNION {{el.children[k]} \cup Within(el.children[k]) : k \in DOMAIN el.children}

\* The version texts of the documents that denote a number below 1.2.
BelowVersionTexts == {<<"1", ".", "1">>, <<"0", ".", "9">>, <<"-", "i", "n", "f">>}

BelowVersion ==
    /\ "version" \in DOMAIN document.root.attrs
    /\ document.root.attrs["version"] \in BelowVersionTexts

\* C1: a load of a document whose version is below VERSION takes the upgrade
\* path, the upgrade fails, and the load ends with ConfigurationException
\* and an empty configuration, whatever was loaded before.
C1_VersionGate ==
    (Returned /\ BelowVersion) =>
        (outcome = "ConfigurationException" /\ config.profiles = EmptyDict)

\* A second load, of a document of an older version that has profiles, has
\* raised and left the configuration empty.
C1_Witness ==
    /\ Returned
    /\ loads > 1
    /\ BelowVersion
    /\ document.root.children # <<>>
    /\ outcome = "ConfigurationException"
    /\ config.profiles = EmptyDict

NamedProfileElements ==
    {el \in Within(document.root) :
        el.tag = "Profile" /\ "name" \in DOMAIN el.attrs /\ el.attrs["name"] # ""}

NamedProfiles == {el.attrs["name"] : el \in NamedProfileElements}

\* The short names declared anywhere in the Profile elements named n.
DeclaredIn(n) ==
    UNION {{d.attrs[a] : a \in DOMAIN d.attrs \cap {"shortName", "name"}} :
              d \in UNION {Within(el) : el \in {e \in NamedProfileElements :
                                                    e.attrs["name"] = n}}}

\* C2: after a successful read_xml the profiles of the configuration are
\* exactly the named profiles of the document just loaded, each holding
\* only what that document declares: nothing of an earlier load is left.
C2_NoLoadAdditive ==
    Loaded =>
        /\ DOMAIN config.profiles = NamedProfiles
        /\ \A n \in DOMAIN config.profiles :
               /\ config.profiles[n].name = n
               /\ ShortNames(config.profiles[n]) \subseteq DeclaredIn(n)

\* A second load has succeeded with a document whose only named profile is
\* rural.
C2_Witness ==
    /\ Loaded
    /\ loads > 1
    /\ NamedProfiles = {"rural"}
    /\ DOMAIN config.profiles = {"rural"}

(***************************************************************************)
(* Properties of the load of one profile.  The document has one Profile    *)
(* element, named default.                                                 *)
(***************************************************************************)
Reading == pc \in {"value_lists", "first_pass", "deferred"}

TheProfileElement == document.root.children[1]

Children == TheProfileElement.children

Declares(el) == el \in Range(Children)

\* the profile of a load that has returned without exception
TheProfile == config.profiles["default"]

EntityOrder(prof) == [k \in 1..Len(prof.entities) |-> prof.entities[k].short_name]

PositionOf(prof, short_name) ==
    CHOOSE k \in 1..Len(prof.entities) : prof.entities[k].short_name = short_name

\* the sequence without the later occurrences of its items
RECURSIVE KeepFirst(_)
KeepFirst(s) ==
    IF s = <<>> THEN <<>>
    ELSE IF s[Len(s)] \in Range(SubSeq(s, 1, Len(s) - 1))
         THEN KeepFirst(SubSeq(s, 1, Len(s) - 1))
         ELSE Append(KeepFirst(SubSeq(s, 1, Len(s) - 1)), s[Len(s)])

NamesOf(els, a) == [k \in 1..Len(els) |-> els[k].attrs[a]]

Named(els, a) ==
    SelectSeq(els, LAMBDA e : a \in DOMAIN e.attrs /\ e.attrs[a] # "")

\* the names of the value lists of the first ValueLists group
ValueListElements ==
    IF \E k \in DOMAIN Children : Children[k].tag = "ValueLists"
    THEN SelectSeq(Children[CHOOSE k \in DOMAIN Children :
                                /\ Children[k].tag = "ValueLists"
                                /\ \A m \in 1..(k - 1) : Children[m].tag # "ValueLists"].children,
                   LAMBDA e : e.tag = "ValueList")
    ELSE <<>>

ValueListNames == NamesOf(Named(ValueListElements, "name"), "name")

\* the Entity elements among the first n children, and of these the ones
\* that are, or are not, in the queue of the deferred pass
EntityElements(n) == SelectSeq(SubSeq(Children, 1, n), LAMBDA e : e.tag = "Entity")

Queued(n) == SelectSeq(EntityElements(n), LAMBDA e : e \in Range(deferred_elements))

Immediate(n) == SelectSeq(EntityElements(n), LAMBDA e : e \notin Range(deferred_elements))

ShortNamesOf(els) == NamesOf(Named(els, "shortName"), "shortName")

\* the short name is declared by an Entity element of the profile
CollidesWithEntity(n) ==
    \E e \in Range(Children) :
        e.tag = "Entity" /\ "shortName" \in DOMAIN e.attrs /\ e.attrs["shortName"] = n

\* the short name is declared by two different elements, Entity elements
\* or value lists of the first group
Collides(n) ==
    Cardinality({e \in Range(Children) :
                    e.tag = "Entity" /\ "shortName" \in DOMAIN e.attrs
                        /\ e.attrs["shortName"] = n}
                \cup {v \in Range(ValueListElements) :
                          "name" \in DOMAIN v.attrs /\ v.attrs["name"] = n}) > 1

\* C3: within the load of one profile the value lists are added first, then
\* the Entity elements that are not queued, in document order, while the
\* queued ones wait in document order until the first pass has seen every
\* child; then the queued ones are constructed in that order; the social
\* tenure is set after all of them.
C3_ConstructionOrder ==
    /\ pc = "value_lists" => profile.entities = <<>>
    /\ pc = "first_pass" =>
           /\ EntityOrder(profile) =
                  KeepFirst(ValueListNames \o ShortNamesOf(Immediate(j - 1)))
           /\ deferred_elements = Queued(j - 1)
    /\ pc = "deferred" =>
           /\ EntityOrder(profile) =
                  KeepFirst(ValueListNames \o ShortNamesOf(Immediate(Len(Children)))
                                \o ShortNamesOf(SubSeq(deferred_elements, 1, j - 1)))
           /\ deferred_elements = Queued(Len(Children))
    /\ Reading => profile.social_tenure = EmptyDict
    /\ (Loaded /\ Declares(SocialTenureEl)) =>
           /\ TheProfile.social_tenure["party"] = "party"
           /\ TheProfile.social_tenure["spatial_unit"] = "parcel"

\* parcel and hh were queued in this order before party was seen, and the
\* deferred pass has constructed them after party, parcel first.
C3_Witness ==
    /\ pc = "deferred"
    /\ Children = <<ParcelEl, HouseholdEl, PartyEl>>
    /\ deferred_elements = <<ParcelEl, HouseholdEl>>
    /\ j = 3
    /\ EntityOrder(profile) = <<"party", "parcel", "hh">>

\* the column of the entity by its name
ColumnOf(ent, name) ==
    ent.columns[CHOOSE k \in 1..Len(ent.columns) : ColumnName(ent.columns[k]) = name]

HasColumn(ent, name) == \E k \in 1..Len(ent.columns) : ColumnName(ent.columns[k]) = name

Attached(col) == "entity_relation" \in DOMAIN col.kwargs

\* C4: in a profile that declares party (no foreign key), parcel (with the
\* FOREIGN_KEY column owner_id of relation parcel_owner) and the relation
\* parcel_owner (parent party, child parcel), in any order, party is in the
\* profile before parcel is constructed, and after the load the column
\* owner_id of parcel has a relation whose parent is party.
C4_ForeignKeyAttachment ==
    /\ (pc = "deferred" /\ Declares(PartyEl)) => "party" \in ShortNames(profile)
    /\ (Loaded /\ Declares(PartyEl) /\ Declares(ParcelEl) /\ Declares(RelationsEl)) =>
           /\ HasColumn(entity(TheProfile, "parcel"), "owner_id")
           /\ Attached(ColumnOf(entity(TheProfile, "parcel"), "owner_id"))
           /\ ColumnOf(entity(TheProfile, "parcel"), "owner_id").kwargs["entity_relation"].parent
                  = "party"

\* hh is declared once, every parcel after it, and the relations are declared
SingleDepthCase ==
    /\ Declares(RelationsEl)
    /\ \E c \in DOMAIN Children :
           /\ Children[c] = HouseholdEl
           /\ \A k \in DOMAIN Children :
                  /\ Children[k] = HouseholdEl => k = c
                  /\ Children[k] = ParcelEl => k > c
           /\ \E b \in DOMAIN Children : Children[b] = ParcelEl

\* C5: hh has a foreign key of relation hh_parcel, whose parent parcel has a
\* foreign key too and is declared after hh: hh is constructed before
\* parcel, the column parcel_id of hh gets no relation, and the load ends
\* without error with both in the profile.
C5_SingleDepthDeferral ==
    /\ (pc = "deferred" /\ SingleDepthCase /\ "parcel" \in ShortNames(profile)) =>
           "hh" \in ShortNames(profile)
    /\ (Returned /\ SingleDepthCase) =>
           /\ outcome = "ok"
           /\ {"hh", "parcel"} \subseteq ShortNames(TheProfile)
           /\ PositionOf(TheProfile, "hh") < PositionOf(TheProfile, "parcel")
           /\ HasColumn(entity(TheProfile, "hh"), "parcel_id")
           /\ ~Attached(ColumnOf(entity(TheProfile, "hh"), "parcel_id"))

\* The load of hh, parcel and the relations has ended: both are in the
\* profile, hh first, its column without a relation.
C5_Witness ==
    /\ Loaded
    /\ Children = <<HouseholdEl, ParcelEl, RelationsEl>>
    /\ EntityOrder(TheProfile) = <<"hh", "parcel">>
    /\ ~Attached(ColumnOf(entity(TheProfile, "hh"), "parcel_id"))

ForeignKeyFamily == {"FOREIGN_KEY", "LOOKUP", "ADMIN_SPATIAL_UNIT"}

ColumnsOf(entity_el) ==
    UNION {Range(g.children) : g \in {c \in Range(entity_el.children) : c.tag = "Columns"}}

InForeignKeyFamily(entity_el) ==
    \E c \in ColumnsOf(entity_el) :
        "TYPE_INFO" \in DOMAIN c.attrs /\ c.attrs["TYPE_INFO"] \in ForeignKeyFamily

\* C6: has_dependency is true of an Entity element exactly when one of its
\* columns is of type FOREIGN_KEY, LOOKUP or ADMIN_SPATIAL_UNIT, and the
\* first pass queues exactly these elements.
C6_DependencyClassification ==
    pc = "first_pass" =>
        \A k \in DOMAIN Children :
            Children[k].tag = "Entity" =>
                /\ has_dependency(Children[k]) <=> InForeignKeyFamily(Children[k])
                /\ k < j => (Children[k] \in Range(deferred_elements)
                                 <=> InForeignKeyFamily(Children[k]))

\* the entity person of the documents whose columns vary
PersonElement == CHOOSE e \in Range(Children) :
                     /\ e.tag = "Entity"
                     /\ "shortName" \in DOMAIN e.attrs
                     /\ e.attrs["shortName"] = "person"

DeclaresPerson ==
    \E e \in Range(Children) :
        e.tag = "Entity" /\ "shortName" \in DOMAIN e.attrs /\ e.attrs["shortName"] = "person"

\* the column elements of person: the children of its Columns element
PersonColumns == PersonElement.children[1].children

BadGeometry == Geometry_el("outline", <<"x">>)

\* the tags and the types of the documents with a character beyond ASCII
BeyondAscii == {"TÉXT", "Colonné"}

TypeBeyondAscii(c) == "TYPE_INFO" \in DOMAIN c.attrs /\ c.attrs["TYPE_INFO"] \in BeyondAscii

\* no column element of person has a tag or a type beyond ASCII
PersonEncodable ==
    DeclaresPerson =>
        \A c \in Range(PersonColumns) : c.tag \notin BeyondAscii /\ ~TypeBeyondAscii(c)

\* the column has the keyword and the keyword has the value
Holds(col, key, value) == key \in DOMAIN col.kwargs /\ col.kwargs[key] = value

RelationNames == {"parcel_owner", "hh_parcel", "person_status", "party_status"}

AssociationNames == {"party_parcel"}

\* C7: the two lookup tables of a profile are complete before any value
\* list or entity is constructed and stay as they are while the profile is
\* read: the named declarations of the Relations and of the Associations
\* block, wherever the block stands among the children, and nothing else;
\* a declaration without a name is no key and no error (the load ends well
\* unless a column of person is a malformed geometry or has a tag or a type
\* beyond ASCII); no name is a key of both; a column finds its declaration
\* by name in its own table only.
C7_ForwardReferenceIndex ==
    /\ pc = "value_lists" => profile.entities = <<>>
    /\ Reading =>
           /\ DOMAIN entity_relation_elements =
                  (IF Declares(RelationsEl) THEN RelationNames ELSE {})
           /\ DOMAIN association_elements =
                  (IF Declares(AssociationsEl) THEN AssociationNames ELSE {})
           /\ \A n \in DOMAIN entity_relation_elements :
                  /\ entity_relation_elements[n] \in Range(RelationsEl.children)
                  /\ entity_relation_elements[n].attrs["name"] = n
           /\ \A n \in DOMAIN association_elements :
                  /\ association_elements[n] \in Range(AssociationsEl.children)
                  /\ association_elements[n].attrs["name"] = n
    /\ (/\ Returned
        /\ BadGeometry \notin Range(IF DeclaresPerson THEN PersonColumns ELSE <<>>)
        /\ PersonEncodable) => outcome = "ok"
    /\ (Loaded /\ Declares(SurveyEl)) =>
           (Declares(AssociationsEl) <=>
                Holds(ColumnOf(entity(TheProfile, "survey"), "crops"), "first_parent", "party"))
    /\ (Loaded /\ DeclaresPerson) =>
           \A col \in Range(entity(TheProfile, "person").columns) :
               /\ ColumnName(col) = "party_id" =>
                      Attached(col) /\ col.kwargs["entity_relation"].parent = "status"
               /\ ColumnName(col) = "crops" => Holds(col, "first_parent", "party")
               /\ ColumnName(col) = "owners" => "first_parent" \notin DOMAIN col.kwargs
               /\ ColumnName(col) = "assoc_id" => ~Attached(col)

\* person, declared before the two blocks, has resolved the relation of its
\* column party_id and found no association for its column owners, which
\* names a relation.
C7_Witness ==
    /\ Loaded
    /\ DeclaresPerson
    /\ Len(Children) = 5
    /\ Children[3] = PersonElement
    /\ Children[4] = RelationsEl
    /\ Children[5] = AssociationsEl
    /\ HasColumn(entity(TheProfile, "person"), "party_id")
    /\ Attached(ColumnOf(entity(TheProfile, "person"), "party_id"))
    /\ HasColumn(entity(TheProfile, "person"), "owners")
    /\ "first_parent" \notin DOMAIN ColumnOf(entity(TheProfile, "person"), "owners").kwargs

\* the type tags that have a serializer
RegisteredTypes ==
    {"TEXT", "VARCHAR", "BIGINT", "DOUBLE", "SERIAL", "DATE", "DATETIME", "YES_NO",
     "GEOMETRY", "FOREIGN_KEY", "LOOKUP", "ADMIN_SPATIAL_UNIT", "MULTIPLE_SELECT"}

\* the Column children of the element that have a registered type and a name
RegisteredColumns(els) ==
    SelectSeq(els, LAMBDA c :
        /\ c.tag = "Column"
        /\ "TYPE_INFO" \in DOMAIN c.attrs /\ c.attrs["TYPE_INFO"] \in RegisteredTypes
        /\ "name" \in DOMAIN c.attrs /\ c.attrs["name"] # "")

ExpectedColumnNames(els) ==
    [k \in 1..Len(RegisteredColumns(els)) |->
        IF RegisteredColumns(els)[k].attrs["TYPE_INFO"] = "ADMIN_SPATIAL_UNIT"
        THEN AdminSpatialUnitName
        ELSE RegisteredColumns(els)[k].attrs["name"]]

\* every entity with a short name (that no other element declares) is in
\* the profile with exactly its registered, named columns in document order
ColumnsKept ==
    \A e \in Range(Children) :
        (/\ e.tag = "Entity"
         /\ "shortName" \in DOMAIN e.attrs /\ e.attrs["shortName"] # ""
         /\ ~Collides(e.attrs["shortName"])) =>
            /\ e.attrs["shortName"] \in ShortNames(TheProfile)
            /\ ColumnNames(entity(TheProfile, e.attrs["shortName"]))
                   = KeepFirst(ExpectedColumnNames(e.children[1].children))

\* the children of the Columns element of person are Column elements with
\* a type, none of them a malformed geometry
PlainColumns ==
    \A c \in Range(PersonColumns) :
        c.tag = "Column" /\ "TYPE_INFO" \in DOMAIN c.attrs /\ c # BadGeometry

\* C8: a Column element of an unregistered type is dropped and raises
\* nothing: the load of an entity whose Column elements are of any type,
\* registered or not, ends without error, and every entity with a short
\* name (that no other element declares) is in the profile with exactly its
\* registered, named columns in document order.
C8_UnknownTypeTolerance ==
    /\ (Returned /\ DeclaresPerson /\ PlainColumns) => outcome = "ok"
    /\ Loaded => ColumnsKept

\* the same for the types within ASCII: the load ends without error unless
\* a geometry column is malformed or a tag or a type is beyond ASCII
C8_AsciiTolerance ==
    /\ (Returned /\ DeclaresPerson) =>
           (outcome = "ok" <=> (BadGeometry \notin Range(PersonColumns) /\ PersonEncodable))
    /\ Loaded => ColumnsKept

\* the load of person with a column of the unregistered type TÉXT has
\* raised and person is not in the configuration
C8_UnknownTypeRaised ==
    /\ Returned
    /\ DeclaresPerson
    /\ PersonColumns = <<Column_el("TEXT", "name"), Column_el("TÉXT", "nom")>>
    /\ outcome = "UnicodeEncodeError"
    /\ config.profiles = EmptyDict

\* person has lost its column of type BLOB and kept the column after it.
C8_Witness ==
    /\ Loaded
    /\ DeclaresPerson
    /\ Len(PersonColumns) = 2
    /\ PersonColumns[1] = Column_el("BLOB", "photo")
    /\ ColumnNames(entity(TheProfile, "person")) = <<PersonColumns[2].attrs["name"]>>

\* the texts of the documents that int() accepts, and their values
IntValue ==
    (<<"1">> :> 1) @@ (<<"4", "2">> :> 42) @@ (<<"-", "3">> :> (0 - 3))
        @@ (<<" ", "7", " ">> :> 7) @@ (<<"\t", "7", "\n">> :> 7)
        @@ (<<"-", " ", "3">> :> (0 - 3)) @@ (<<"", "7">> :> 7)

IsBigintAge(c) ==
    /\ c.tag = "Column"
    /\ "TYPE_INFO" \in DOMAIN c.attrs /\ c.attrs["TYPE_INFO"] = "BIGINT"
    /\ "name" \in DOMAIN c.attrs /\ c.attrs["name"] = "age"

DeclaresBigintAge == DeclaresPerson /\ \E c \in Range(PersonColumns) : IsBigintAge(c)

BigintAgeElement == CHOOSE c \in Range(PersonColumns) : IsBigintAge(c)

\* the bound of the column is the integer of the attribute, or is not set
BoundIs(col, c, a) ==
    IF a \in DOMAIN c.attrs /\ c.attrs[a] \in DOMAIN IntValue
    THEN Holds(col, a, IntValue[c.attrs[a]])
    ELSE a \notin DOMAIN col.kwargs

CommonAttributes(col) ==
    /\ col.TYPE_INFO = "BIGINT"
    /\ col.args = <<"age", "person">>
    /\ DOMAIN col.kwargs \ {"minimum", "maximum"} =
           {"description", "index", "mandatory", "searchable", "unique", "user_tip"}
    /\ Holds(col, "description", "") /\ Holds(col, "user_tip", "")
    /\ Holds(col, "index", FALSE) /\ Holds(col, "mandatory", FALSE)
    /\ Holds(col, "searchable", FALSE) /\ Holds(col, "unique", FALSE)

\* C9: a BIGINT column whose minimum or maximum is not the text of an
\* integer is created and added without that bound; the other bound, when
\* it is an integer, and the common attributes are as declared, and the
\* read of the column raises nothing.
C9_BoundCoercionLeniency ==
    (Returned /\ DeclaresBigintAge /\ BadGeometry \notin Range(PersonColumns)) =>
        /\ outcome = "ok"
        /\ HasColumn(entity(TheProfile, "person"), "age")
        /\ CommonAttributes(ColumnOf(entity(TheProfile, "person"), "age"))
        /\ BoundIs(ColumnOf(entity(TheProfile, "person"), "age"), BigintAgeElement, "minimum")
        /\ BoundIs(ColumnOf(entity(TheProfile, "person"), "age"), BigintAgeElement, "maximum")

\* The column age, declared with minimum abc and maximum 42, is in person
\* with the maximum 42 and no minimum.
C9_Witness ==
    /\ Loaded
    /\ DeclaresBigintAge
    /\ BigintAgeElement.attrs = [TYPE_INFO |-> "BIGINT", name |-> "age",
                                 minimum |-> <<"a", "b", "c">>, maximum |-> <<"4", "2">>]
    /\ Holds(ColumnOf(entity(TheProfile, "person"), "age"), "maximum", 42)
    /\ "minimum" \notin DOMAIN ColumnOf(entity(TheProfile, "person"), "age").kwargs

\* the code-values of a ValueList element: one for each CodeValue child
\* whose value is not empty
CodeValuesOf(value_list_el) ==
    {[code |-> c.attrs["code"], value |-> c.attrs["value"]] :
        c \in {x \in Range(value_list_el.children) :
                  x.tag = "CodeValue" /\ x.attrs["value"] # ""}}

IsNamed(el) == "name" \in DOMAIN el.attrs /\ el.attrs["name"] # ""

\* C10: every named ValueList element (whose name no Entity element
\* declares as its short name) is in the profile as a value list,
\* also when it has no code-value; the value list that the profile holds
\* under a name has exactly the code-values of the CodeValue children with
\* a value of the element of that name (of the last one, when several
\* elements share the name), each with its code.
C10_ValueListLoading ==
    Loaded =>
        /\ "" \notin ShortNames(TheProfile)
        /\ \A k \in DOMAIN ValueListElements :
               (IsNamed(ValueListElements[k])
                    /\ ~CollidesWithEntity(ValueListElements[k].attrs["name"])) =>
                   /\ ValueListElements[k].attrs["name"] \in ShortNames(TheProfile)
                   /\ (\A m \in DOMAIN ValueListElements :
                           (m > k /\ IsNamed(ValueListElements[m])) =>
                               ValueListElements[m].attrs["name"]
                                   # ValueListElements[k].attrs["name"])
                      => /\ entity(TheProfile, ValueListElements[k].attrs["name"]).TYPE_INFO
                                = "VALUE_LIST"
                         /\ Range(entity(TheProfile, ValueListElements[k].attrs["name"]).values)
                                = CodeValuesOf(ValueListElements[k])

\* status, declared with the code-values 1 Active and one without code and
\* value, is loaded with the code-value 1 Active alone.
C10_Witness ==
    /\ Loaded
    /\ ValueListElements =
           <<ValueList_el("status", <<CodeValue_el("1", "Active"), CodeValue_el("", "")>>)>>
    /\ entity(TheProfile, "status").values = <<[code |-> "1", value |-> "Active"]>>

\* the column flagged of the documents whose flags vary, and its element
DeclaresFlagged ==
    /\ DeclaresPerson
    /\ Len(PersonColumns) = 1
    /\ "name" \in DOMAIN PersonColumns[1].attrs
    /\ PersonColumns[1].attrs["name"] = "flagged"

FlaggedElement == PersonColumns[1]

Flagged == ColumnOf(entity(TheProfile, "person"), "flagged")

\* the texts that start with t or T
StartsWithT(text) == Len(text) > 0 /\ text[1] \in {"t", "T"}

\* C12: the flag read from an attribute text is true exactly when the
\* first character of the text is t or T, and false for every other text,
\* the empty text and False included; the texts True and False that the
\* writer emits for a flag are read back as true and as false.
C12_BooleanCoercion ==
    (Loaded /\ DeclaresFlagged) =>
        /\ HasColumn(entity(TheProfile, "person"), "flagged")
        /\ \A a \in FlagAttributes :
               /\ a \in DOMAIN FlaggedElement.attrs =>
                      /\ Flagged.kwargs[a] = StartsWithT(FlaggedElement.attrs[a])
                      /\ FlaggedElement.attrs[a] = <<"T", "r", "u", "e">> => Flagged.kwargs[a]
                      /\ FlaggedElement.attrs[a] = <<"F", "a", "l", "s", "e">>
                             => ~Flagged.kwargs[a]
                      /\ FlaggedElement.attrs[a] = <<>> => ~Flagged.kwargs[a]
               /\ a \notin DOMAIN FlaggedElement.attrs => ~Flagged.kwargs[a]

\* The column declared with mandatory tx is mandatory, and the one
\* declared with the text False is not.
C12_Witness ==
    /\ Loaded
    /\ DeclaresFlagged
    /\ \/ /\ "mandatory" \in DOMAIN FlaggedElement.attrs
          /\ FlaggedElement.attrs["mandatory"] = <<"t", "x">>
          /\ Flagged.kwargs["mandatory"]
       \/ /\ "unique" \in DOMAIN FlaggedElement.attrs
          /\ FlaggedElement.attrs["unique"] = <<"F", "a", "l", "s", "e">>
          /\ ~Flagged.kwargs["unique"]

(***************************************************************************)
(* Properties of the loop over the Profile elements.                       *)
(***************************************************************************)
IsProfile(el) == el.tag = "Profile"

\* the Profile elements of the document in document order: each child of
\* the root that is one, followed by those among its own children
RECURSIVE InDocumentOrder(_, _)
InDocumentOrder(els, k) ==
    IF k > Len(els) THEN <<>>
    ELSE (IF IsProfile(els[k]) THEN <<els[k]>> ELSE <<>>)
             \o SelectSeq(els[k].children, IsProfile)
             \o InDocumentOrder(els, k + 1)

ProfilesInOrder == InDocumentOrder(document.root.children, 1)

\* the names of the named ones among the first n Profile elements
NamesUpTo(n) ==
    {ProfilesInOrder[k].attrs["name"] :
        k \in {m \in 1..n : m <= Len(ProfilesInOrder) /\ IsNamed(ProfilesInOrder[m])}}

PassesGate ==
    /\ document # NullDocument
    /\ document.root.tag = "Configuration"
    /\ "version" \in DOMAIN document.root.attrs
    /\ document.root.attrs["version"] = <<"1", ".", "2">>

\* C15: a Profile element whose name is missing or empty yields no profile
\* and does not abort the load; every other Profile element is read and
\* registered, in document order: while the k-th element is being read, the
\* profile under construction has its name and the configuration holds
\* the named profiles of the elements before it, and the load returns
\* normally with the named profiles of all of them.
C15_ProfileLeniency ==
    /\ pc # "idle" =>
           /\ i <= Len(ProfilesInOrder) + 1
           /\ DOMAIN config.profiles = NamesUpTo(i - 1)
           /\ Reading =>
                  /\ IsNamed(ProfilesInOrder[i])
                  /\ profile.name = ProfilesInOrder[i].attrs["name"]
    /\ (Returned /\ PassesGate) =>
           /\ outcome = "ok"
           /\ DOMAIN config.profiles = NamesUpTo(Len(ProfilesInOrder))
           /\ "" \notin DOMAIN config.profiles

\* A load has returned normally from a document whose first Profile element
\* has no name and whose second is rural: rural alone is registered.
C15_Witness ==
    /\ Loaded
    /\ Len(ProfilesInOrder) = 2
    /\ ~IsNamed(ProfilesInOrder[1])
    /\ IsNamed(ProfilesInOrder[2])
    /\ DOMAIN config.profiles = {"rural"}

(***************************************************************************)
(* Properties of the relation of a foreign key column, on the documents    *)
(* whose entity person follows the value list status and the entity party. *)
(***************************************************************************)
ColumnCase ==
    /\ Len(Children) = 5
    /\ Children[1] = ValueListsEl /\ Children[2] = PartyEl
    /\ Children[3] = PersonElement /\ Children[4] = RelationsEl

IsForeignKeyElement(c) ==
    /\ c.tag = "Column"
    /\ "TYPE_INFO" \in DOMAIN c.attrs /\ c.attrs["TYPE_INFO"] \in {"FOREIGN_KEY", "LOOKUP"}
    /\ IsNamed(c)

HasRelationChild(c) == \E k \in DOMAIN c.children : c.children[k].tag = "Relation"

ReferredRelation(c) ==
    c.children[CHOOSE k \in DOMAIN c.children : c.children[k].tag = "Relation"].attrs["name"]

\* the parent and the child of the named declarations of the Relations block
RelationEnds ==
    ("parcel_owner" :> <<"party", "parcel">>) @@ ("hh_parcel" :> <<"parcel", "hh">>)
        @@ ("person_status" :> <<"status", "person">>)
        @@ ("party_status" :> <<"status", "party">>)

\* what the profile holds while the columns of person are read
ResolvedBeforePerson == {"status", "party"}

Validates(name) ==
    /\ RelationEnds[name][1] \in ResolvedBeforePerson
    /\ RelationEnds[name][2] \in ResolvedBeforePerson

ShouldAttach(c) ==
    /\ HasRelationChild(c)
    /\ ReferredRelation(c) \in DOMAIN RelationEnds
    /\ Validates(ReferredRelation(c))

\* C16: a foreign key or lookup column gets a relation only when its
\* element has a Relation child, the name of that child is a key of the
\* relation index and the relation built from the declaration is valid; in
\* every other case the column is constructed and added without a relation
\* and the load raises nothing.
C16_OnlyValidRelationsAttach ==
    (Returned /\ ColumnCase /\ BadGeometry \notin Range(PersonColumns)) =>
        /\ outcome = "ok"
        /\ \A c \in Range(PersonColumns) :
               IsForeignKeyElement(c) =>
                   /\ HasColumn(entity(TheProfile, "person"), c.attrs["name"])
                   /\ Attached(ColumnOf(entity(TheProfile, "person"), c.attrs["name"]))
                          <=> ShouldAttach(c)
                   /\ ShouldAttach(c) =>
                          /\ ColumnOf(entity(TheProfile, "person"), c.attrs["name"])
                                 .kwargs["entity_relation"].parent
                                 = RelationEnds[ReferredRelation(c)][1]
                          /\ ColumnOf(entity(TheProfile, "person"), c.attrs["name"])
                                 .kwargs["entity_relation"].child
                                 = RelationEnds[ReferredRelation(c)][2]

\* person is loaded with party_id, whose relation party_status is attached,
\* and with plain_id, which has no Relation child and no relation.
C16_Witness ==
    /\ Loaded
    /\ ColumnCase
    /\ PersonColumns = <<Related_el("FOREIGN_KEY", "party_id", "Relation", "party_status"),
                         Column_el("FOREIGN_KEY", "plain_id")>>
    /\ Attached(ColumnOf(entity(TheProfile, "person"), "party_id"))
    /\ ~Attached(ColumnOf(entity(TheProfile, "person"), "plain_id"))

\* person is loaded with a lookup whose relation is declared but not valid
\* and a foreign key whose relation is not declared: neither has a relation.
C16_WitnessUnattached ==
    /\ Loaded
    /\ ColumnCase
    /\ PersonColumns = <<Related_el("LOOKUP", "status", "Relation", "person_status"),
                         Related_el("FOREIGN_KEY", "assoc_id", "Relation", "party_parcel")>>
    /\ ~Attached(ColumnOf(entity(TheProfile, "person"), "status"))
    /\ ~Attached(ColumnOf(entity(TheProfile, "person"), "assoc_id"))

(***************************************************************************)
(* Properties of the short names of a profile.                             *)
(***************************************************************************)
ShortNameOf(el) == IF el.tag = "ValueList" THEN el.attrs["name"] ELSE el.attrs["shortName"]

HasShortName(el) ==
    IF el.tag = "ValueList" THEN IsNamed(el)
    ELSE "shortName" \in DOMAIN el.attrs /\ el.attrs["shortName"] # ""

HasForeignKeyColumn(el) ==
    \E c \in ColumnsOf(el) : "TYPE_INFO" \in DOMAIN c.attrs /\ c.attrs["TYPE_INFO"] = "FOREIGN_KEY"

\* the elements with a short name in the order in which they are added: the
\* value lists, the entities of the first pass, the entities of the
\* deferred pass
AddOrder ==
    SelectSeq(ValueListElements, HasShortName)
        \o SelectSeq(EntityElements(Len(Children)),
                     LAMBDA e : HasShortName(e) /\ ~HasForeignKeyColumn(e))
        \o SelectSeq(EntityElements(Len(Children)),
                     LAMBDA e : HasShortName(e) /\ HasForeignKeyColumn(e))

\* the object is the one read from the element
ReadFrom(obj, el) ==
    IF el.tag = "ValueList"
    THEN obj.TYPE_INFO = "VALUE_LIST" /\ Range(obj.values) = CodeValuesOf(el)
    ELSE /\ obj.TYPE_INFO = "ENTITY"
         /\ ColumnNames(obj) = KeepFirst(ExpectedColumnNames(el.children[1].children))

Unique(prof) ==
    \A a, b \in DOMAIN prof.entities :
        prof.entities[a].short_name = prof.entities[b].short_name => a = b

\* C17: a profile never holds two objects of one short name; of several
\* entity-like elements of one short name the one added last is the one
\* the profile holds, right after it is added and when the load has
\* returned, and the load raises nothing.
C17_ShortNameUniqueness ==
    /\ Unique(profile)
    /\ \A n \in DOMAIN config.profiles : Unique(config.profiles[n])
    /\ (pc = "first_pass" /\ j > 1 /\ Children[j - 1].tag = "Entity"
            /\ HasShortName(Children[j - 1]) /\ ~HasForeignKeyColumn(Children[j - 1])) =>
           ReadFrom(entity(profile, ShortNameOf(Children[j - 1])), Children[j - 1])
    /\ (pc = "deferred" /\ j > 1 /\ HasShortName(deferred_elements[j - 1])) =>
           ReadFrom(entity(profile, ShortNameOf(deferred_elements[j - 1])),
                    deferred_elements[j - 1])
    /\ Loaded =>
           \A k \in DOMAIN AddOrder :
               (\A m \in DOMAIN AddOrder :
                    m > k => ShortNameOf(AddOrder[m]) # ShortNameOf(AddOrder[k]))
               => /\ ShortNameOf(AddOrder[k]) \in ShortNames(TheProfile)
                  /\ ReadFrom(entity(TheProfile, ShortNameOf(AddOrder[k])), AddOrder[k])
    /\ (Returned /\ Len(AddOrder) > 1 /\ Children \in Seqs(CollisionPool, MaxChildren))
           => outcome = "ok"

\* Of the value list party, the entity party with a foreign key and the
\* entity party with the column name, declared in this order, the profile
\* holds the one with the foreign key: it was added in the deferred pass.
C17_Witness ==
    /\ Loaded
    /\ Len(Children) = 3
    /\ Children[1].tag = "ValueLists"
    /\ Children[2] = Entity_el("party", <<Column_el("FOREIGN_KEY", "ref")>>)
    /\ Children[3] = PartyEl
    /\ Len(TheProfile.entities) = 1
    /\ TheProfile.entities[1].TYPE_INFO = "ENTITY"
    /\ ColumnNames(TheProfile.entities[1]) = <<"ref">>

(***************************************************************************)
(* Properties of the capability flags of an entity.                        *)
(***************************************************************************)
DeclaresUnit ==
    /\ Len(Children) = 1
    /\ Children[1].tag = "Entity"
    /\ "shortName" \in DOMAIN Children[1].attrs
    /\ Children[1].attrs["shortName"] = "unit"

UnitElement == Children[1]

Unit == entity(TheProfile, "unit")

\* the flag is what the text of its own attribute says, and is not set when
\* the attribute is missing or empty
FlagFrom(d, key, el, a) ==
    IF a \in DOMAIN el.attrs /\ el.attrs[a] # <<>>
    THEN key \in DOMAIN d /\ d[key] = StartsWithT(el.attrs[a])
    ELSE key \notin DOMAIN d

\* C19: each capability flag of an entity is read from its own attribute:
\* proxy from proxy, the automatic identifier from createId, global,
\* supportsDocuments, associative and editable from theirs; an element with
\* proxy False and createId True is read as an entity that is no proxy and
\* creates its identifier.
C19_IndependentFlags ==
    (Loaded /\ DeclaresUnit) =>
        /\ FlagFrom(Unit.optional_args, "is_global", UnitElement, "global")
        /\ FlagFrom(Unit.optional_args, "is_proxy", UnitElement, "proxy")
        /\ FlagFrom(Unit.optional_args, "create_id_column", UnitElement, "createId")
        /\ FlagFrom(Unit.optional_args, "supports_documents", UnitElement, "supportsDocuments")
        /\ FlagFrom(Unit.props, "is_associative", UnitElement, "associative")
        /\ FlagFrom(Unit.props, "user_editable", UnitElement, "editable")

\* The four flags that are read from their own attribute.
C19_OtherFlags ==
    (Loaded /\ DeclaresUnit) =>
        /\ FlagFrom(Unit.optional_args, "is_global", UnitElement, "global")
        /\ FlagFrom(Unit.optional_args, "supports_documents", UnitElement, "supportsDocuments")
        /\ FlagFrom(Unit.props, "is_associative", UnitElement, "associative")
        /\ FlagFrom(Unit.props, "user_editable", UnitElement, "editable")

\* The element with proxy False and createId True is read as a proxy.
C19_ProxyFromCreateId ==
    /\ Loaded
    /\ DeclaresUnit
    /\ DOMAIN UnitElement.attrs = {"shortName", "proxy", "createId"}
    /\ UnitElement.attrs["proxy"] = <<"F", "a", "l", "s", "e">>
    /\ UnitElement.attrs["createId"] = <<"T", "r", "u", "e">>
    /\ Unit.optional_args = [is_proxy |-> TRUE]

(***************************************************************************)
(* Properties of the administrative spatial unit column.                   *)
(***************************************************************************)
IsAdminElement(c) ==
    /\ c.tag = "Column"
    /\ "TYPE_INFO" \in DOMAIN c.attrs /\ c.attrs["TYPE_INFO"] = "ADMIN_SPATIAL_UNIT"
    /\ IsNamed(c)

DeclaresAdmin ==
    /\ ColumnCase
    /\ \E c \in Range(PersonColumns) : IsAdminElement(c)
    /\ BadGeometry \notin Range(PersonColumns)

AdminElement == CHOOSE c \in Range(PersonColumns) : IsAdminElement(c)

AdminColumn == ColumnOf(entity(TheProfile, "person"), AdminSpatialUnitName)

\* C20: an administrative spatial unit column is read with the relation
\* lookup, validation and attachment of the foreign key family, and its
\* name is removed from the positional arguments: the constructor gets the
\* owning entity alone, and the relation when a valid one is declared.
C20_AdminSpatialUnit ==
    (Loaded /\ DeclaresAdmin) =>
        /\ HasColumn(entity(TheProfile, "person"), AdminSpatialUnitName)
        /\ AdminColumn.args = <<"person">>
        /\ Attached(AdminColumn) <=> ShouldAttach(AdminElement)

\* The name is removed from the positional arguments.
C20_NameRemoved ==
    (Loaded /\ DeclaresAdmin) =>
        /\ HasColumn(entity(TheProfile, "person"), AdminSpatialUnitName)
        /\ AdminColumn.TYPE_INFO = "ADMIN_SPATIAL_UNIT"
        /\ AdminColumn.args = <<"person">>

\* The column declared with the valid relation party_status has none.
C20_NoRelation ==
    /\ Loaded
    /\ DeclaresAdmin
    /\ PersonColumns = <<Related_el("ADMIN_SPATIAL_UNIT", "unit", "Relation", "party_status")>>
    /\ AdminColumn.args = <<"person">>
    /\ ~Attached(AdminColumn)

(***************************************************************************)
(* Properties of save and load.                                            *)
(***************************************************************************)
\* a step of save
SaveStep == pc = "idle" /\ op' = "save"

Unset == DOMAIN config.profiles = {}

\* the file that save opens cannot be opened for writing
NotWritable == path' \notin DOMAIN files \/ ~files[path'].writable

\* C13: save raises a configuration error when the configuration is unset,
\* an I/O error when the path is empty or the target cannot be opened for
\* writing; in each case the file system is as it was, nothing is created,
\* truncated or written, and no file was opened; the test of the
\* configuration comes first: with an unset configuration the error is the
\* configuration error whatever the path and the target are.
C13_SavePreconditions ==
    [][SaveStep =>
          /\ Unset =>
                 /\ outcome' = "ConfigurationException"
                 /\ files' = files /\ handle' = "none" /\ path' = path
          /\ (~Unset /\ path = <<>>) =>
                 /\ outcome' = "IOError"
                 /\ files' = files /\ handle' = "none" /\ path' = path
          /\ (~Unset /\ path # <<>> /\ NotWritable) =>
                 /\ outcome' = "IOError"
                 /\ files' = files /\ handle' = "none"
          /\ (~Unset /\ path # <<>> /\ ~NotWritable) =>
                 /\ outcome' # "ConfigurationException"
                 /\ files'[path'].exists]_vars

\* save has raised the configuration error for an unset configuration; the
\* file of the path, which exists and could be written, has its content.
C13_Witness ==
    /\ op = "save"
    /\ pc = "idle"
    /\ outcome = "ConfigurationException"
    /\ Unset
    /\ path = <<"c", ".", "s", "t", "c">>
    /\ files[path].exists /\ files[path].writable /\ files[path].content.wellformed

\* save has raised the I/O error for a target that cannot be opened for
\* writing, which has its content.
C13_WitnessNotWritable ==
    /\ op = "save"
    /\ pc = "idle"
    /\ outcome = "IOError"
    /\ ~Unset
    /\ path = <<"c", ".", "s", "t", "c">>
    /\ files[path].exists /\ ~files[path].writable /\ files[path].content.wellformed

\* the path that save is to open for each path of the serializer
ExpectedPath ==
    (<<"c">> :> <<"c", ".", "s", "t", "c">>)
        @@ (<<"c", ".", "s", "t", "c">> :> <<"c", ".", "s", "t", "c">>)
        @@ (<<"c", ".", "S", "T", "C">> :> <<"c", ".", "S", "T", "C">>)
        @@ (<<"c", ".", "S", "t", "c">> :> <<"c", ".", "S", "t", "c">>)
        @@ (<<"c", ".", "x", "m", "l">> :> <<"c", ".", "x", "m", "l", ".", "s", "t", "c">>)
        @@ (<<"d", ".", "e", "/", "c">> :> <<"d", ".", "e", "/", "c", ".", "s", "t", "c">>)
        @@ (<<"c", ".", "s", "t", "c", ".", "b">>
                :> <<"c", ".", "s", "t", "c", ".", "b", ".", "s", "t", "c">>)

\* C14: when the suffix of the path is not stc, in any letter case, save
\* appends .stc to the path before it opens the file; when it is, the path
\* is left as it is; the file that save writes is the one of that path.
C14_SuffixNormalization ==
    [][(SaveStep /\ ~Unset /\ path # <<>>) =>
          /\ path' = ExpectedPath[path]
          /\ outcome' = "ok" => files'[ExpectedPath[path]].content.wellformed]_vars

\* The path whose suffix is stc, in any letter case, is left as it is.
C14_StcUnchanged ==
    [][(SaveStep /\ ~Unset /\ path # <<>> /\ ExpectedPath[path] = path) =>
          path' = path]_vars

\* save has written the file c.xml, and c.xml.stc does not exist.
C14_Unnormalized ==
    /\ op = "save"
    /\ outcome = "ok"
    /\ path = <<"c", ".", "x", "m", "l">>
    /\ files[path].content.wellformed
    /\ ~files[<<"c", ".", "x", "m", "l", ".", "s", "t", "c">>].exists

\* C18: when save or load has returned or raised, the file that it opened
\* is released, on every path: success, I/O error, parse failure, failure
\* of the version gate, failure of the write.
C18_HandleLifetime ==
    (pc = "idle" /\ op \in {"save", "load"}) => handle # "open"

\* The handle is released when the operation returns normally, and none
\* was opened when the operation raised before open or because of open.
C18_ReleasedOnReturn ==
    (pc = "idle" /\ op \in {"save", "load"} /\ outcome = "ok") => handle = "released"

\* load has raised the parse error and its file is open.
C18_OpenAfterParseFailure ==
    /\ pc = "idle"
    /\ op = "load"
    /\ outcome = "ConfigurationException"
    /\ ~files[path].content.wellformed
    /\ handle = "open"

(***************************************************************************)
(* Properties of a profile that is written and read back.                  *)
(***************************************************************************)
\* the ends of a relation
Ends(er) ==
    [parent |-> er.parent, child |-> er.child, parent_column |-> er.parent_column,
     child_column |-> er.child_column]

\* a column by its kind, its name and the attributes of its kind
ColumnView(col) ==
    [TYPE_INFO |-> col.TYPE_INFO, args |-> col.args,
     kwargs |-> [k \in DOMAIN col.kwargs \ {"entity_relation"} |-> col.kwargs[k]],
     relation |-> IF "entity_relation" \in DOMAIN col.kwargs
                  THEN {Ends(col.kwargs["entity_relation"])} ELSE {}]

\* an entity-like object by its columns, or its code-values
Content(e) ==
    IF e.TYPE_INFO = "ENTITY" THEN {ColumnView(e.columns[k]) : k \in DOMAIN e.columns}
    ELSE IF e.TYPE_INFO = "VALUE_LIST" THEN Range(e.values)
    ELSE {}

References(prof) ==
    [a \in DOMAIN prof.social_tenure \cap {"party", "spatial_unit"} |-> prof.social_tenure[a]]

SameEntities(a, b) ==
    /\ ShortNames(a) = ShortNames(b)
    /\ \A n \in ShortNames(b) :
           /\ entity(a, n).TYPE_INFO = entity(b, n).TYPE_INFO
           /\ Content(entity(a, n)) = Content(entity(b, n))

SameRelations(a, b) ==
    {Ends(a.relations[k]) : k \in DOMAIN a.relations}
        = {Ends(b.relations[k]) : k \in DOMAIN b.relations}

\* the document is what write_xml makes of the configuration
WrittenFrom(b) == write_xml(b).exc = "" /\ document = [root |-> write_xml(b).element]

ReadBack == pc = "idle" /\ op = "load" /\ outcome = "ok"

\* C11: the profile read from what write_xml wrote of a profile has the
\* same short names, the same columns with the attributes of their kinds,
\* the same relations in its collection of relations and the same
\* references of its social tenure.
C11_RoundTrip ==
    ReadBack =>
        \A b \in BuiltConfigurations :
            WrittenFrom(b) =>
                /\ DOMAIN config.profiles = DOMAIN b.profiles
                /\ \A n \in DOMAIN b.profiles :
                       /\ SameEntities(config.profiles[n], b.profiles[n])
                       /\ SameRelations(config.profiles[n], b.profiles[n])
                       /\ References(config.profiles[n]) = References(b.profiles[n])

\* The profiles without a relation are read back as they were written.
C11_WithoutRelations ==
    ReadBack =>
        \A b \in BuiltConfigurations :
            (WrittenFrom(b) /\ \A n \in DOMAIN b.profiles : b.profiles[n].relations = <<>>) =>
                /\ DOMAIN config.profiles = DOMAIN b.profiles
                /\ \A n \in DOMAIN b.profiles :
                       /\ SameEntities(config.profiles[n], b.profiles[n])
                       /\ SameRelations(config.profiles[n], b.profiles[n])
                       /\ References(config.profiles[n]) = References(b.profiles[n])

\* The short names and the references of the social tenure are read back
\* also when the profile has relations.
C11_ShortNames ==
    ReadBack =>
        \A b \in BuiltConfigurations :
            WrittenFrom(b) =>
                \A n \in DOMAIN b.profiles :
                    /\ ShortNames(config.profiles[n]) = ShortNames(b.profiles[n])
                    /\ References(config.profiles[n]) = References(b.profiles[n])

\* The profile written with the relation parcel_owner, attached to the
\* column owner_id of parcel, is read back without a relation in its
\* collection and on the column.
C11_RelationLost ==
    /\ ReadBack
    /\ \E b \in BuiltConfigurations :
           /\ WrittenFrom(b)
           /\ DOMAIN b.profiles = {"default"}
           /\ b.profiles["default"].relations = <<BuiltOwner>>
    /\ config.profiles["default"].relations = <<>>
    /\ HasColumn(entity(config.profiles["default"], "parcel"), "owner_id")
    /\ ~Attached(ColumnOf(entity(config.profiles["default"], "parcel"), "owner_id"))

\* A profile without a relation has been read back as it was written.
C11_PlainReadBack ==
    /\ ReadBack
    /\ \E b \in BuiltConfigurations :
           /\ WrittenFrom(b)
           /\ DOMAIN b.profiles = {"rural"}
           /\ SameEntities(config.profiles["rural"], b.profiles["rural"])
    /\ ColumnOf(entity(config.profiles["rural"], "parcel"), "area").kwargs["minimum"]
           = Finite(TRUE, <<"2", "5">>, 1)
    /\ ColumnOf(entity(config.profiles["rural"], "parcel"), "area").kwargs["maximum"]
           = Finite(FALSE, <<"1", "0", "0", "5">>, 1)
    /\ \E el \in Within(document.root) :
           /\ "minimum" \in DOMAIN el.attrs /\ el.attrs["minimum"] = <<"-", "2", ".", "5">>
           /\ "maximum" \in DOMAIN el.attrs
           /\ el.attrs["maximum"] = <<"1", ".", "0", "0", "5">>

(***************************************************************************)
(* Bound typing per column kind.                                           *)
(***************************************************************************)
\* person declares the single column age, of a kind of BoundedKinds
DeclaresAge ==
    /\ DeclaresPerson
    /\ Len(PersonColumns) = 1
    /\ PersonColumns[1].tag = "Column"
    /\ "TYPE_INFO" \in DOMAIN PersonColumns[1].attrs
    /\ PersonColumns[1].attrs["TYPE_INFO"] \in BoundedKinds
    /\ "name" \in DOMAIN PersonColumns[1].attrs
    /\ PersonColumns[1].attrs["name"] = "age"

AgeElement == PersonColumns[1]

AgeKind == AgeElement.attrs["TYPE_INFO"]

Age == ColumnOf(entity(TheProfile, "person"), "age")

\* the texts of the documents that float() accepts, and their values
FloatValue ==
    (<<"1">> :> Finite(FALSE, <<"1">>, 1)) @@ (<<"4", "2">> :> Finite(FALSE, <<"4", "2">>, 2))
        @@ (<<"-", "3">> :> Finite(TRUE, <<"3">>, 1))
        @@ (<<" ", "7", " ">> :> Finite(FALSE, <<"7">>, 1))
        @@ (<<"2", ".", "5">> :> Finite(FALSE, <<"2", "5">>, 1))
        @@ (<<"\t", "7", "\n">> :> Finite(FALSE, <<"7">>, 1))
        @@ (<<"1", "e", "1">> :> Finite(FALSE, <<"1">>, 2))
        @@ (<<"", "7">> :> Finite(FALSE, <<"7">>, 1))
        @@ (<<"1", ".", "8", "e", "3", "0", "8">> :> Infinite(FALSE))
        @@ (<<"-", "1", ".", "8", "e", "3", "0", "8">> :> Infinite(TRUE))
        @@ (<<"1", "e", "-", "3", "2", "4">> :> Finite(FALSE, <<>>, 0))
        @@ (<<"0", ".", "1", "0", "0", "0", "0", "0", "0", "0", "0", "0", "0", "0", "0",
              "0", "0", "0", "1">> :> Finite(FALSE, <<"1">>, 0))

\* the texts of the documents that are dates
DateTexts == {<<"2", "0", "1", "6", "-", "0", "2", "-", "1", "5">>}

\* the keyword is set and its value is the given one, of the given type
\* (an integer never equals a text)
HoldsTyped(col, key, value) ==
    key \in DOMAIN col.kwargs /\ ToString(col.kwargs[key]) = ToString(value)

Unbound(col, key) == key \notin DOMAIN col.kwargs

\* the bound a of the column, for the attribute text of a column of the kind
TypedBound(col, kind, text, a) ==
    CASE kind \in {"VARCHAR", "BIGINT"} ->
            IF text \in DOMAIN IntValue THEN HoldsTyped(col, a, IntValue[text])
            ELSE Unbound(col, a)
      [] kind = "DOUBLE" ->
            IF text \in DOMAIN FloatValue THEN HoldsTyped(col, a, FloatValue[text])
            ELSE Unbound(col, a)
      [] kind \in {"DATE", "DATETIME"} ->
            IF text \in DateTexts THEN HoldsTyped(col, a, text) ELSE Unbound(col, a)
      [] OTHER -> HoldsTyped(col, a, text)

BoundTyped(col, el, a) ==
    IF a \in DOMAIN el.attrs THEN TypedBound(col, el.attrs["TYPE_INFO"], el.attrs[a], a)
    ELSE Unbound(col, a)

\* the tags of the register() calls
RegisteredTags == {Registrations[k].COLUMN_TYPE_INFO : k \in DOMAIN Registrations}

OneHandlerPerTag ==
    /\ DOMAIN ColumnRegistry = RegisteredTags
    /\ \A t \in RegisteredTags : handler(t).COLUMN_TYPE_INFO = t

\* C21: the bounds of a column are typed by its kind: integers for VARCHAR
\* and BIGINT, a float for DOUBLE, a date for DATE and DATETIME, and for
\* every other kind, TEXT included, the raw text of the attribute, which is
\* never dropped; the registry holds one handler for each tag.
C21_BoundTyping ==
    /\ OneHandlerPerTag
    /\ (Loaded /\ DeclaresAge) =>
          /\ HasColumn(entity(TheProfile, "person"), "age")
          /\ BoundTyped(Age, AgeElement, "minimum")
          /\ BoundTyped(Age, AgeElement, "maximum")

\* the same for every kind but TEXT
C21_KindsButText ==
    /\ OneHandlerPerTag
    /\ (Loaded /\ DeclaresAge /\ AgeKind # "TEXT") =>
          /\ HasColumn(entity(TheProfile, "person"), "age")
          /\ BoundTyped(Age, AgeElement, "minimum")
          /\ BoundTyped(Age, AgeElement, "maximum")

\* a TEXT column whose minimum is the text 42 has the integer 42
C21_TextCoerced ==
    /\ Loaded /\ DeclaresAge /\ AgeKind = "TEXT"
    /\ AgeElement.attrs = [TYPE_INFO |-> "TEXT", name |-> "age", minimum |-> <<"4", "2">>]
    /\ HoldsTyped(Age, "minimum", 42)

\* a TEXT column whose minimum is the text abc has no minimum
C21_TextDropped ==
    /\ Loaded /\ DeclaresAge /\ AgeKind = "TEXT"
    /\ AgeElement.attrs = [TYPE_INFO |-> "TEXT", name |-> "age", minimum |-> <<"a", "b", "c">>]
    /\ Unbound(Age, "minimum")

\* a SERIAL column whose minimum is the text abc has the text
C21_SerialRaw ==
    /\ Loaded /\ DeclaresAge /\ AgeKind = "SERIAL"
    /\ AgeElement.attrs = [TYPE_INFO |-> "SERIAL", name |-> "age", minimum |-> <<"a", "b", "c">>]
    /\ HoldsTyped(Age, "minimum", <<"a", "b", "c">>)

(***************************************************************************)
(* Social tenure.                                                          *)
(***************************************************************************)
DeclaresTenure == \E k \in 1..Len(Children) : Children[k].tag = "SocialTenure"

\* the first SocialTenure child of the profile element
TenureElement ==
    Children[CHOOSE k \in 1..Len(Children) :
                 /\ Children[k].tag = "SocialTenure"
                 /\ \A m \in 1..(k - 1) : Children[m].tag # "SocialTenure"]

\* the reference of the profile's social tenure is the short name that the
\* attribute carries, and is unset when the attribute is empty or absent
Refers(prof, reference, el, a) ==
    IF a \in DOMAIN el.attrs /\ el.attrs[a] # ""
    THEN reference \in DOMAIN prof.social_tenure /\ prof.social_tenure[reference] = el.attrs[a]
    ELSE reference \notin DOMAIN prof.social_tenure

\* C22: after the load of a profile with a SocialTenure element, the social
\* tenure of the profile refers to the party, the spatial unit and the
\* tenure type list that the element names, each left unset when its
\* attribute is empty or absent.
C22_SocialTenureLoad ==
    (Loaded /\ DeclaresTenure) =>
        /\ Refers(TheProfile, "party", TenureElement, "party")
        /\ Refers(TheProfile, "spatial_unit", TenureElement, "spatialUnit")
        /\ Refers(TheProfile, "tenure_type_collection", TenureElement, "tenureTypeList")

\* the party and the spatial unit alone
C22_PartyAndSpatialUnit ==
    (Loaded /\ DeclaresTenure) =>
        /\ Refers(TheProfile, "party", TenureElement, "party")
        /\ Refers(TheProfile, "spatial_unit", TenureElement, "spatialUnit")

\* the tenure type list is never set by a load
C22_TenureTypeNeverSet ==
    Loaded => "tenure_type_collection" \notin DOMAIN TheProfile.social_tenure

\* an element that names the three leaves the profile with the two
C22_TenureTypeLost ==
    /\ Loaded /\ DeclaresTenure
    /\ TenureElement.attrs = TenureNames
    /\ TheProfile.social_tenure = [party |-> "party", spatial_unit |-> "parcel"]

\* an element whose party is empty and whose spatial unit is absent leaves
\* both unset
C22_EmptyAndAbsent ==
    /\ Loaded /\ DeclaresTenure
    /\ TenureElement.attrs = [party |-> ""]
    /\ TheProfile.social_tenure = EmptyDict

(***************************************************************************)
(* The calls of the upgrade step.                                          *)
(***************************************************************************)
RootAbsent == document = NullDocument

VersionMissing == ~RootAbsent /\ "version" \notin DOMAIN document.root.attrs

\* the conditions under which read_xml turns to the upgrade
Triggers == {t \in {"root", "attribute", "version"} :
                \/ t = "root" /\ RootAbsent
                \/ t = "attribute" /\ (RootAbsent \/ VersionMissing)
                \/ t = "version" /\ ~RootAbsent /\ BelowVersion}

\* the upgrade step reports success for the document of the load
Succeeds == update(document).status

\* the names of the profiles that a document declares
ProfileNames(doc) ==
    {el.attrs["name"] : el \in {e \in Within(doc.root) :
        e.tag = "Profile" /\ "name" \in DOMAIN e.attrs /\ e.attrs["name"] # ""}}

\* and update, which upgrades nothing, has reported failure
C23_Witness ==
    /\ Returned /\ VersionMissing
    /\ updates = 1
    /\ ~Succeeds
    /\ outcome = "ConfigurationException"
    /\ config.profiles = EmptyDict

\* no root: the first call of update has ended the load
C23_WitnessWithoutRoot ==
    /\ Returned /\ RootAbsent
    /\ updates = 1
    /\ outcome = "ConfigurationException"

\* a document of a version above the current one is loaded without a call
C23_WitnessNoCall ==
    /\ Loaded
    /\ "version" \in DOMAIN document.root.attrs
    /\ document.root.attrs["version"] = <<"1", ".", "3">>
    /\ updates = 0
    /\ config.profiles # EmptyDict

(***************************************************************************)
(* Every Entity element is realized once.                                  *)
(***************************************************************************)
IsNamedEntity(el) ==
    el.tag = "Entity" /\ "shortName" \in DOMAIN el.attrs /\ el.attrs["shortName"] # ""

\* the step adds one object of the short name of the element to the profile
\* that is being built: a new one, or one in the place of the object that
\* had the short name
Adds(el) ==
    /\ el.attrs["shortName"] \in ShortNames(profile')
    /\ entity(profile', el.attrs["shortName"]).TYPE_INFO = "ENTITY"
    /\ Len(profile'.entities) =
           IF el.attrs["shortName"] \in ShortNames(profile)
           THEN Len(profile.entities) ELSE Len(profile.entities) + 1
    /\ \A n \in ShortNames(profile) \ {el.attrs["shortName"]} :
           n \in ShortNames(profile') /\ entity(profile', n) = entity(profile, n)

AddsNothing == profile' = profile

Queues(el) == deferred_elements' = Append(deferred_elements, el)

QueuesNothing == deferred_elements' = deferred_elements

\* the step of the first pass over the child element: a named Entity is
\* added or queued, and not both; an Entity without short name adds
\* nothing; any other element adds nothing and is not queued
FirstPassRealizes(el) ==
    IF IsNamedEntity(el)
    THEN \/ Adds(el) /\ QueuesNothing
         \/ AddsNothing /\ Queues(el)
    ELSE IF el.tag = "Entity"
    THEN AddsNothing /\ (QueuesNothing \/ Queues(el))
    ELSE AddsNothing /\ QueuesNothing

\* the step of the deferred pass over the queued element
DeferredRealizes(el) ==
    /\ QueuesNothing
    /\ j' = j + 1
    /\ IF IsNamedEntity(el) THEN Adds(el) ELSE AddsNothing

ValueListsOf(prof) ==
    {k \in DOMAIN prof.entities : prof.entities[k].TYPE_INFO = "VALUE_LIST"}

\* one step of the load of a profile
RealizesOnce ==
    /\ pc = "value_lists" =>
           /\ pc' = "first_pass"
           /\ EntityOrder(profile') = KeepFirst(ValueListNames)
           /\ ValueListsOf(profile') = DOMAIN profile'.entities
    /\ (pc = "first_pass" /\ j <= Len(Children)) =>
           /\ ~IsNamedEntity(Children[j]) => pc' = "first_pass"
           /\ pc' = "first_pass" =>
                  /\ FirstPassRealizes(Children[j])
                  /\ Cardinality(ValueListsOf(profile')) <= Cardinality(ValueListsOf(profile))
    /\ (pc = "first_pass" /\ pc' = "deferred") =>
           /\ j = Len(Children) + 1
           /\ AddsNothing /\ QueuesNothing
    /\ (pc = "deferred" /\ j <= Len(deferred_elements)) =>
           /\ ~IsNamedEntity(deferred_elements[j]) => pc' = "deferred"
           /\ pc' = "deferred" =>
                  /\ DeferredRealizes(deferred_elements[j])
                  /\ Cardinality(ValueListsOf(profile')) <= Cardinality(ValueListsOf(profile))
    /\ (pc = "deferred" /\ pc' = "load_items") =>
           /\ j = Len(deferred_elements) + 1
           /\ \A el \in Range(Children) :
                  IsNamedEntity(el) => el.attrs["shortName"] \in ShortNames(profile)
           /\ config'.profiles["default"].entities = profile.entities
    /\ \A k \in DOMAIN profile'.entities :
           profile'.entities[k].TYPE_INFO # "ASSOCIATION_ENTITY"

\* C24: in the load of a profile every Entity child with a short name is
\* constructed and added once, by the step of the first pass over it or,
\* when that step has queued it, by the step of the deferred pass over it,
\* and every queued element is read before the profile is returned; an
\* Entity without short name adds nothing and the load goes on; the value
\* lists are added by the one step before the first pass and by no later
\* step; and no Association element becomes an item of the entities of the
\* profile.
C24_RealizedOnce == [][RealizesOnce]_vars

\* parcel was queued by the first pass, the two Entity elements without
\* short name have added nothing, and the deferred pass has added parcel
\* after the value list
C24_Witness ==
    /\ Loaded
    /\ Children = <<UnnamedDependentEl, ParcelEl, ValueListsEl>>
    /\ EntityOrder(TheProfile) = <<"status", "parcel">>

\* the Associations group and an Entity element without short name leave
\* the profile with the value list alone
C24_WitnessNothingAdded ==
    /\ Loaded
    /\ Children = <<AssociationsEl, UnnamedEl, ValueListsEl>>
    /\ EntityOrder(TheProfile) = <<"status">>

(***************************************************************************)
(* The configuration after a load that fails.                              *)
(***************************************************************************)
\* load is called
LoadStep == pc = "idle" /\ op' = "load"

NoFile == path \notin DOMAIN files \/ ~files[path].exists

Unreadable == ~NoFile /\ ~files[path].readable

Malformed == ~NoFile /\ ~Unreadable /\ ~files[path].content.wellformed

\* the load fails before the document is parsed
FailsBeforeParsed == NoFile \/ Unreadable \/ Malformed

\* the version of the document of the file is below the current one
FileBelowVersion ==
    /\ ~FailsBeforeParsed
    /\ "version" \in DOMAIN files[path].content.doc.root.attrs
    /\ files[path].content.doc.root.attrs["version"] \in BelowVersionTexts

LoadFrame ==
    /\ (LoadStep /\ (NoFile \/ Unreadable)) =>
           (pc' = "idle" /\ outcome' = "IOError" /\ config' = config)
    /\ (LoadStep /\ Malformed) =>
           (pc' = "idle" /\ outcome' = "ConfigurationException" /\ config' = config)
    /\ (LoadStep /\ ~FailsBeforeParsed) => config'.profiles = EmptyDict
    /\ (LoadStep /\ FileBelowVersion) =>
           (pc' = "idle" /\ outcome' = "ConfigurationException")
    /\ (op' = "load" /\ config' # config) => ~FailsBeforeParsed

\* C25: a load of a path that does not exist, of a file that cannot be
\* opened or of a document that does not parse raises and leaves the
\* configuration as it was before the call; a load changes the
\* configuration only once read_xml is reached, which empties it first, so
\* that a failure of the version gate leaves it empty.
C25_FailedLoadFrame == [][LoadFrame]_vars

\* load has raised for a file that does not exist and the configuration
\* still has its two profiles
C25_Witness ==
    /\ pc = "idle" /\ op = "load" /\ loads = 1
    /\ outcome = "IOError"
    /\ path = <<"c", ".", "x", "m", "l">>
    /\ NoFile
    /\ DOMAIN config.profiles = {"default", "rural"}

\* load has raised for a document that does not parse and the
\* configuration still has its profile
C25_WitnessMalformed ==
    /\ pc = "idle" /\ op = "load" /\ loads = 1
    /\ outcome = "ConfigurationException"
    /\ Malformed
    /\ DOMAIN config.profiles = {"default"}

\* load has raised at the version gate and the configuration is empty
C25_WitnessGate ==
    /\ pc = "idle" /\ op = "load" /\ loads = 1
    /\ outcome = "ConfigurationException"
    /\ FileBelowVersion
    /\ config.profiles = EmptyDict

====
